---- MODULE Spec2Model ----
(***************************************************************************)
(* A model of the tab-grouper background script (src/src/background.js and *)
(* the other revisions of it kept in the repository): the serialized       *)
(* operation queue, the debounce helper, the routines that read and write  *)
(* the browser's tabs and tab groups, and the event listeners that start   *)
(* them.                                                                   *)
(*                                                                         *)
(* JavaScript runs handlers one at a time; a handler is suspended only at  *)
(* an await on a platform call, a storage call, a timer or the queue.  One  *)
(* action of the model is one run of a handler (or of a continuation) from *)
(* one suspension point to the next.  A platform call reads or changes the *)
(* browser's state in the step that issues it; the routine that awaits it  *)
(* goes on in a later step.                                                *)
(***************************************************************************)
EXTENDS Integers, Sequences, FiniteSets, TLC

VARIABLES
    queue,        \* OperationQueue.queue: the operations waiting, oldest first
    processing,   \* OperationQueue.processing
    tasks,        \* the invocations of async routines that are suspended at an await
    nextId,       \* the next invocation number (history: orders enqueue calls)
    started,      \* history: the ids of the queued operations, in the order they started
    settled,      \* history: id -> how the queued operation ended
    timers,       \* the pending setTimeout timers of the debounced function
    timeoutId,    \* debounce's closure variable timeoutId (0: undefined)
    nextTimer,    \* the id setTimeout returns next
    sinceLast,    \* time since the last call of the debounced function (capped)
    trigs,        \* history: one record per call of the debounced function
    win,          \* the window's tab strip: the tabs, left to right
    groups,       \* the window's tab groups: group id -> title and color
    nextGid,      \* the id the browser gives the next new group
    busy,         \* the tab strip cannot be edited now (the user is dragging a tab)
    drags,        \* how many times the user began to drag a tab (bounded)
    groupMappings,      \* chrome.storage.sync: groupMappings (domain -> group name)
    groupColors,        \* chrome.storage.sync: groupColors (group name -> color)
    cachedGroupColors,  \* the script's cachedGroupColors
    colorCache,         \* the script's colorCache: the entries of its store
    rev,          \* which revision of groupTabsByDomain the script runs
    events,       \* how many browser events were delivered (bounded)
    made,         \* history: the chrome.tabs.group calls that created a group
    passNo,       \* how many passes were run one after the other (sequential runs)
    atPass,       \* history: the browser's state when the latest sequential pass began
    reissued,     \* history: mutating calls issued by a sequential pass after the first
    lastDone,     \* history: the routine invocation that returned last
    returned,     \* history: what the calls of generateColor returned (name, color)
    reads,        \* history: the calls of getGroupMappings and getGroupColors
    checks,       \* history: what the runs of checkAndUngroupTab found and did
    lookup,       \* the call of getDomain on its own: its url and what it returned
    saves,        \* the writes of the storage: what each writes and how it ended
    asked,        \* the call of a synchronous function on its own: arguments and result
    limiter       \* rateLimiter: the clock, lastCall, the calls that wait, the starts

qvars == <<queue, processing, nextId, started, settled>>
dvars == <<timers, timeoutId, nextTimer, sinceLast, trigs>>
pvars == <<win, groups, nextGid, busy, drags>>
svars == <<groupMappings, groupColors, cachedGroupColors, colorCache>>
hvars == <<made, passNo, atPass, reissued, lastDone, returned, reads, checks, lookup, saves, asked, limiter>>
evars == <<pvars, svars, rev, events, hvars>>
vars == <<queue, processing, tasks, nextId, started, settled,
          timers, timeoutId, nextTimer, sinceLast, trigs, evars>>

-----------------------------------------------------------------------------
(* Bounds of the model *)

\* enqueue calls in one behaviour of the queue's own specification
MaxOps == 4
\* suspension points (awaits) inside one abstract queued operation
MaxAwaits == 2
\* calls of the debounced function in one behaviour
MaxTrigs == 4
\* tabs in the window at the start
MaxTabs == 3
\* browser events (listener calls) in one behaviour
MaxEvents == 3
\* tabs in the window when passes are run one after the other
MaxSeqTabs == 6
\* passes run one after the other
MaxPasses == 2
\* times the user drags a tab in one behaviour
MaxDrags == 1
\* labels of a hostname given to getDomain
MaxLabels == 4
\* tabs in the window when some tabs have no domain
MaxSkipTabs == 4
\* passes over the three tabs of the end-to-end example
MaxDemoPasses == 2
\* tabs the user closes in one behaviour of the cleanup
MaxCloses == 2
\* tabs in the window when the ungrouped tabs are moved
MaxMoveTabs == 4
\* calls of the routine that moves the ungrouped tabs, in one behaviour
MaxMoverCalls == 2
\* writes of the storage in one behaviour
MaxSaves == 2
\* the longest name hashCode is called with on its own
MaxHashedLen == 24
\* calls of rateLimiter.execute in one behaviour, and how long the clock runs
MaxRateCalls == 3
MaxClock == 8
\* calls of the batched groupTabsByDomain that may overlap, and the tabs in
\* the window then
MaxBatchPasses == 2
MaxBatchTabs == 3
\* URL changes in one behaviour of the corrective routine alone
MaxNavs == 2
\* browser events in one behaviour with URL changes and passes
MaxNavEvents == 2
\* tabs in the window when URLs change
MaxNavTabs == 3
\* changes of the stored mappings or colors in one behaviour
MaxChanges == 1
\* tabs in the window when the stored mappings or colors change
MaxStoreTabs == 4
\* calls of generateColor in one behaviour of its own specification
MaxCalls == 4
\* pinned tabs at the start of the window
MaxPinned == 2
\* tabs in the window when the user may drag a tab during a pass
MaxDragTabs == 4

-----------------------------------------------------------------------------
(* Strings: a string is a sequence of one-character strings *)

Min(a, b) == IF a <= b THEN a ELSE b

LowerCase == <<"a","b","c","d","e","f","g","h","i","j","k","l","m",
               "n","o","p","q","r","s","t","u","v","w","x","y","z">>
UpperCase == <<"A","B","C","D","E","F","G","H","I","J","K","L","M",
               "N","O","P","Q","R","S","T","U","V","W","X","Y","Z">>
Digits == <<"0","1","2","3","4","5","6","7","8","9">>

Range(f) == {f[i] : i \in DOMAIN f}

IndexIn(c, seq) == CHOOSE i \in DOMAIN seq : seq[i] = c

\* String.prototype.toLowerCase, one character
LowerChar(c) == IF c \in Range(UpperCase) THEN LowerCase[IndexIn(c, UpperCase)] ELSE c
\* String.prototype.toUpperCase, one character
UpperChar(c) == IF c \in Range(LowerCase) THEN UpperCase[IndexIn(c, LowerCase)] ELSE c

ToLowerCase(str) == [i \in DOMAIN str |-> LowerChar(str[i])]
ToUpperCase(str) == [i \in DOMAIN str |-> UpperChar(str[i])]

\* [a-zA-Z0-9]
IsAlnum(c) == c \in Range(LowerCase) \cup Range(UpperCase) \cup Range(Digits)

\* str.charCodeAt(i), for the characters the model uses
CharCode(c) ==
    IF c \in Range(LowerCase) THEN 96 + IndexIn(c, LowerCase)
    ELSE IF c \in Range(UpperCase) THEN 64 + IndexIn(c, UpperCase)
    ELSE IF c \in Range(Digits) THEN 47 + IndexIn(c, Digits)
    ELSE IF c = "." THEN 46
    ELSE IF c = "-" THEN 45
    ELSE 32

\* str.split(sep) for a one-character separator: the pieces, empty ones kept
RECURSIVE SplitAcc(_, _, _, _)
SplitAcc(str, sep, cur, acc) ==
    IF str = <<>> THEN Append(acc, cur)
    ELSE IF sep[Head(str)]
         THEN SplitAcc(Tail(str), sep, <<>>, Append(acc, cur))
         ELSE SplitAcc(Tail(str), sep, Append(cur, Head(str)), acc)

IsDot == [c \in {"."} \cup Range(LowerCase) \cup Range(UpperCase) \cup Range(Digits)
               \cup {"-", " "} |-> c = "."]
NotAlnum == [c \in {"."} \cup Range(LowerCase) \cup Range(UpperCase) \cup Range(Digits)
               \cup {"-", " "} |-> ~IsAlnum(c)]

SplitDots(str) == SplitAcc(str, IsDot, <<>>, <<>>)

\* pieces.join(".")
RECURSIVE JoinDots(_)
JoinDots(pieces) ==
    IF pieces = <<>> THEN <<>>
    ELSE IF Len(pieces) = 1 THEN pieces[1]
    ELSE pieces[1] \o <<".">> \o JoinDots(Tail(pieces))

SliceAll(seq) == seq
\* arr.slice(-2)
LastTwo(seq) == IF Len(seq) <= 2 THEN seq ELSE SubSeq(seq, Len(seq) - 1, Len(seq))

StartsWith(str, pre) == Len(str) >= Len(pre) /\ SubSeq(str, 1, Len(pre)) = pre
EndsWith(str, suf) ==
    Len(str) >= Len(suf) /\ SubSeq(str, Len(str) - Len(suf) + 1, Len(str)) = suf

\* a.includes(b)
Includes(a, b) ==
    \E i \in 1..(Len(a) - Len(b) + 1) : SubSeq(a, i, i + Len(b) - 1) = b

-----------------------------------------------------------------------------
(* getDomain and the group name of a domain *)

\* A URL as the tab platform reports it: kind "none" (no url), "bad" (a string
\* new URL() rejects) or "ok" with the hostname new URL(url).hostname.
Url(kind, host) == [kind |-> kind, host |-> host]
NoUrl == Url("none", <<>>)

\* What getDomain returns for "no domain".
Null == <<"null">>

StripWwwNever(host) == host
\* hostname.replace(/^www\./, "")
StripWww(host) ==
    IF StartsWith(host, <<"w","w","w",".">>) THEN SubSeq(host, 5, Len(host)) ELSE host

\* hostname.includes(".") ? hostname.split(".").slice(-2).join(".") : hostname
LastTwoLabels(host) ==
    IF "." \in Range(host) THEN JoinDots(LastTwo(SplitDots(host))) ELSE host

\* getDomain(url): null for a missing or malformed url and for an empty domain
getDomain(url) ==
    IF url.kind # "ok" THEN Null
    ELSE LET domain == LastTwoLabels(StripWww(url.host)) IN
         IF domain = <<>> THEN Null ELSE domain

GetDomainLetsThrow == FALSE
\* try { new URL(url) ... } catch (error) { console.warn(...); return null; }
GetDomainCatches == TRUE

\* How a call of getDomain(url) settles: new URL(url) throws on a string that
\* is no URL, and the catch turns that into null.
GetDomainSettles(url) ==
    [threw |-> url.kind = "bad" /\ ~GetDomainCatches, domain |-> getDomain(url)]

\* the alternatives of /(\.com|\.se|\.net|\.org|\.io|\.dev)$/, in order
Suffixes == << <<".","c","o","m">>, <<".","s","e">>, <<".","n","e","t">>,
               <<".","o","r","g">>, <<".","i","o">>, <<".","d","e","v">> >>

\* domain.replace(/(\.com|\.se|\.net|\.org|\.io|\.dev)$/, "")
StripSuffix(domain) ==
    IF \E k \in DOMAIN Suffixes : EndsWith(domain, Suffixes[k])
    THEN LET k == CHOOSE k \in DOMAIN Suffixes : EndsWith(domain, Suffixes[k])
         IN SubSeq(domain, 1, Len(domain) - Len(Suffixes[k]))
    ELSE domain

\* A stored object: its entries, in the order of Object.entries.
Entry(key, val) == [key |-> key, val |-> val]
Has(obj, key) == \E i \in DOMAIN obj : obj[i].key = key
Get(obj, key) == obj[CHOOSE i \in DOMAIN obj : obj[i].key = key].val

\* The value undefined, and the function Object that every plain object
\* inherits as its property "constructor".
Undefined == <<"undefined">>
FunctionObject == <<"function Object">>
\* The properties of Object.prototype whose names a hostname can be
InheritedKeys == { <<"c","o","n","s","t","r","u","c","t","o","r">> }

\* obj[key], obj a plain object: its own entry, else the inherited property
GetProp(obj, key) ==
    IF Has(obj, key) THEN Get(obj, key)
    ELSE IF key \in InheritedKeys THEN FunctionObject
    ELSE Undefined

\* groupMappings[domain] || domain.replace(...): undefined and "" are falsy
GroupNameOf(domain, mappings) ==
    IF GetProp(mappings, domain) \notin {Undefined, <<>>}
    THEN GetProp(mappings, domain)
    ELSE StripSuffix(domain)

-----------------------------------------------------------------------------
(* abbreviate, the group title, hashCode and generateColor *)

\* groupName.trim()
RECURSIVE TrimLeft(_)
TrimLeft(str) == IF str # <<>> /\ Head(str) = " " THEN TrimLeft(Tail(str)) ELSE str
RECURSIVE TrimRight(_)
TrimRight(str) ==
    IF str # <<>> /\ str[Len(str)] = " " THEN TrimRight(SubSeq(str, 1, Len(str) - 1)) ELSE str
Trim(str) == TrimRight(TrimLeft(str))

\* .split(/[^a-zA-Z0-9]/).filter(Boolean)
Words(str) == SelectSeq(SplitAcc(str, NotAlnum, <<>>, <<>>), LAMBDA w : w # <<>>)

abbreviateBySlice(groupName) == ToUpperCase(SubSeq(groupName, 1, Min(5, Len(groupName))))
\* abbreviate(groupName)
abbreviate(groupName) ==
    LET words == Words(Trim(groupName)) IN
    IF Len(words) > 1
    THEN ToUpperCase(<<words[1][1], words[2][1]>>)
    ELSE ToUpperCase(SubSeq(groupName, 1, Min(5, Len(groupName))))

\* the length above which a group name is abbreviated
TitleLimit == 15

\* const title = groupName.length > 15 ? abbreviate(groupName) : groupName
TitleOf(groupName) ==
    IF Len(groupName) > TitleLimit THEN abbreviate(groupName) ELSE groupName

\* const COLOR_PALETTE = [...]
COLOR_PALETTE == <<"grey", "blue", "red", "yellow", "green", "pink", "purple", "cyan", "orange">>

\* A 32-bit integer is kept as its two 16-bit halves [hi, lo] (two's complement).
Half == 65536

\* hash = (hash << 5) - hash + char; hash |= 0
HashStep(h, code) ==
    LET lo == h.lo * 31 + code
        hi == h.hi * 31 + (lo \div Half)
    IN [hi |-> hi % Half, lo |-> lo % Half]

\* let hash = 0; for (let i = 0; i < str.length; i++) { ... }: hash before the
\* loop and after each of its turns
RECURSIVE HashTrace(_)
HashTrace(str) ==
    IF str = <<>> THEN <<[hi |-> 0, lo |-> 0]>>
    ELSE LET before == HashTrace(SubSeq(str, 1, Len(str) - 1))
         IN Append(before, HashStep(before[Len(before)], CharCode(str[Len(str)])))

\* hashCode(str): return hash
hashCode(str) == HashTrace(str)[Len(str) + 1]

IsNegative(h) == h.hi >= Half \div 2

\* Math.abs(hash) % COLOR_PALETTE.length: 65536 = 7 and 2^32 = 4 modulo 9
PaletteIndex(h) ==
    LET n == Len(COLOR_PALETTE)
        u == (h.hi * (Half % n) + h.lo) % n
    IN IF IsNegative(h) THEN ((((Half % n) * (Half % n)) % n) + n - u) % n ELSE u

\* The hash-derived color of a group name.
HashColor(groupName) == COLOR_PALETTE[PaletteIndex(hashCode(groupName)) + 1]

\* groupColors[groupName], groupColors a plain object: its own entry, else the
\* inherited property (the function Object, not a color), else undefined ("")
ColorProp(colors, groupName) ==
    IF Has(colors, groupName) THEN Get(colors, groupName)
    ELSE IF groupName \in InheritedKeys THEN "function Object"
    ELSE ""

\* generateColor(groupName) given the colors getGroupColors() returned
ColorOf(groupName, colors) ==
    IF ColorProp(colors, groupName) # ""
    THEN ColorProp(colors, groupName)
    ELSE HashColor(groupName)

\* An entry of a Cache's store.  expired: Date.now() > entry.expiresAt.
CacheEntry(key, value) == [key |-> key, value |-> value, expired |-> FALSE]

\* Cache.get(key): the value and the store after the call; an expired entry
\* is deleted and null ("") is returned, as for a missing key.
CacheGet(store, key) ==
    IF \E en \in store : en.key = key
    THEN LET en == CHOOSE en \in store : en.key = key
         IN IF en.expired THEN [value |-> "", store |-> store \ {en}]
            ELSE [value |-> en.value, store |-> store]
    ELSE [value |-> "", store |-> store]

CacheSetFirstColor(store, key, value) ==
    {en \in store : en.key # key} \cup {[key |-> key, value |-> "grey", expired |-> FALSE]}
\* Cache.set(key, value): the store after the call
CacheSet(store, key, value) ==
    {en \in store : en.key # key} \cup {CacheEntry(key, value)}

\* generateColor(groupName), once getGroupColors() has returned colors: the
\* color it returns, colorCache's store after the call, and how the color was
\* found (history).
generateColor(groupName, colors, store) ==
    IF ColorProp(colors, groupName) # ""
    THEN [color |-> ColorProp(colors, groupName), store |-> store, how |-> "stored"]
    ELSE LET hit == CacheGet(store, groupName) IN
         IF hit.value # ""
         THEN [color |-> hit.value, store |-> hit.store, how |-> "cached"]
         ELSE LET color == COLOR_PALETTE[PaletteIndex(hashCode(groupName)) + 1]
              IN [color |-> color, store |-> CacheSet(hit.store, groupName, color),
                  how |-> "hashed"]

\* The record of a call of generateColor by routine id (history).
Returned(id, groupName, gen) ==
    [by |-> id, name |-> groupName, color |-> gen.color, how |-> gen.how]

-----------------------------------------------------------------------------
(* Invocations *)

\* What the closure of a queued operation holds: the batch of tabs and the
\* mappings of the batched revision's operations, nothing for the others.
NoArg == [batch |-> <<>>, maps |-> <<>>]

\* An operation passed to enqueue, as it waits in the queue. after: how many
\* queued operations had settled when it was enqueued (history).
Op(id, kind, after, arg) == [id |-> id, kind |-> kind, after |-> after, arg |-> arg]

\* The browser's state before any call, for the history fields.
NotSeen == [win |-> <<>>, groups |-> <<>>, nextGid |-> 0]

\* A running invocation of an async routine. viaQueue: it is the operation the
\* queue's loop is awaiting; by: the debounce call that started it (0: none).
\* The other fields are the locals of the routine: n (a count), ok (whether the
\* awaited call succeeded), snap and gsnap (the tabs and groups it read), maps
\* and got (the mappings and colors it read), todo and kept (the tabs or
\* results still to handle, and those left for partitioning), plan (the
\* partitions still to process), cur (the group it created), color (the color
\* it resolved); and two history fields: seen (the browser's state after the
\* routine's last call) and clean (no one else changed that state so far).
Task(id, kind, viaQueue, pc, by) ==
    [id |-> id, kind |-> kind, viaQueue |-> viaQueue, pc |-> pc, by |-> by,
     n |-> 0, ok |-> TRUE, snap |-> <<>>, gsnap |-> <<>>, maps |-> <<>>,
     got |-> <<>>, todo |-> <<>>, kept |-> <<>>, plan |-> <<>>, cur |-> 0,
     color |-> "", seen |-> NotSeen, clean |-> TRUE]

QueueTasks == {t \in tasks : t.viaQueue}

-----------------------------------------------------------------------------
(* OperationQueue *)

EnqueueNeverProcesses(p) == FALSE
\* enqueue: if (!this.processing) await this.processQueue()
EnqueueCallsProcessQueue(p) == ~p

\* processQueue: if (this.processing || this.queue.length === 0) return;
ProcessQueueReturnsEarly(p, q) == p \/ Len(q) = 0

ProcessingNotSet == FALSE
\* processQueue: this.processing = true, before the loop
ProcessingOnEntry == TRUE

ShiftLast(q) == [op |-> q[Len(q)], rest |-> SubSeq(q, 1, Len(q) - 1)]
\* const operation = this.queue.shift()
Shift(q) == [op |-> Head(q), rest |-> Tail(q)]

LoopEndsAfterOne(q) == FALSE
\* processQueue: while (this.queue.length > 0)
LoopGoesOn(q) == Len(q) > 0

CatchesNothing(outcome) == outcome = "ok"
\* try { await operation(); } catch (error) { console.error(...) }: the loop
\* goes on after the operation, however it settled
LoopCatches(outcome) == outcome \in {"ok", "failed"}

\* The first pc of an operation's body: where operation() is first suspended.
FirstPc(kind) ==
    CASE kind = "abstract" -> "await"
      [] kind = "batch" -> "domains"
      [] OTHER -> "delay"

\* The loop takes the next operation and calls it; the call runs to its first await.
StartNext(q, ts) ==
    LET s == Shift(q) IN
    /\ queue' = s.rest
    /\ tasks' = ts \cup {[Task(s.op.id, s.op.kind, TRUE, FirstPc(s.op.kind), 0)
                              EXCEPT !.snap = s.op.arg.batch, !.maps = s.op.arg.maps]}
    /\ started' = Append(started, s.op.id)

\* enqueue(operation), called by a handler: push, then processQueue unless the
\* flag is set.  processQueue runs synchronously up to its first await.
\* ts: the suspended invocations as the caller leaves them.
Enqueue(kind, arg, ts) ==
    LET op == Op(nextId, kind, Cardinality(DOMAIN settled), arg)
        q  == Append(queue, op) IN
    /\ nextId' = nextId + 1
    /\ IF EnqueueCallsProcessQueue(processing) /\ ~ProcessQueueReturnsEarly(processing, q)
       THEN /\ processing' = ProcessingOnEntry
            /\ StartNext(q, ts)
       ELSE /\ queue' = q
            /\ tasks' = ts
            /\ UNCHANGED <<processing, started>>
    /\ UNCHANGED settled

\* The awaited operation settles (outcome "ok" or "failed") and processQueue
\* resumes: the catch, the while test, then the next operation or the reset of
\* the flag.  Without the catch the rejection leaves processQueue at once.
Settle(t, outcome) ==
    LET rest == tasks \ {t} IN
    /\ t \in QueueTasks
    /\ IF LoopCatches(outcome)
       THEN /\ settled' = settled @@ (t.id :> (IF outcome = "ok" THEN "ok" ELSE "caught"))
            /\ IF LoopGoesOn(queue)
               THEN /\ StartNext(queue, rest)
                    /\ UNCHANGED processing
               ELSE /\ processing' = FALSE
                    /\ tasks' = rest
                    /\ UNCHANGED <<queue, started>>
       ELSE /\ settled' = settled @@ (t.id :> "escaped")
            /\ tasks' = rest
            /\ UNCHANGED <<queue, processing, started>>
    /\ UNCHANGED nextId

\* constructor: this.queue = []; this.processing = false.  Nothing runs yet.
QueueInit ==
    /\ queue = <<>>
    /\ processing = FALSE
    /\ tasks = {}
    /\ nextId = 1
    /\ started = <<>>
    /\ settled = <<>>

-----------------------------------------------------------------------------
(* The tab platform *)

\* chrome.tabGroups.TAB_GROUP_ID_NONE
NoGroup == 0

\* What getGroupColors finds in cachedGroupColors before the first read.
NoCache == [set |-> FALSE, colors |-> <<>>]
\* cachedGroupColors once getGroupColors has stored what it read.
Cached(colors) == [set |-> TRUE, colors |-> colors]


\* No routine has run yet.
NoneDone == [kind |-> "none", id |-> 0, ok |-> TRUE, clean |-> TRUE, n |-> 0, pc |-> "none"]

\* minInterval: 200, in units of 100 ms
minInterval == 2

\* rateLimiter as the script creates it (lastCall: 0), Date.now() being far
\* from 0.  overlapped: a call was made while another one waited (history).
LimiterLoaded ==
    [now |-> minInterval, lastCall |-> 0, waiting |-> {}, starts |-> <<>>,
     calls |-> 0, overlapped |-> FALSE]

\* No call of a synchronous function on its own.
NoCall == [fn |-> "none", name |-> <<>>, maps |-> <<>>, colors |-> <<>>, store |-> {},
           returned |-> FALSE, result |-> <<>>, trace |-> <<>>]

NoRunHistory ==
    /\ made = <<>>
    /\ passNo = 0
    /\ atPass = NotSeen
    /\ reissued = 0
    /\ lastDone = NoneDone
    /\ returned = {}
    /\ reads = {}
    /\ checks = {}
    /\ saves = <<>>
    /\ asked = NoCall
    /\ limiter = LimiterLoaded

\* No call of getDomain on its own.
NotAsked ==
    [url |-> [kind |-> "none", host |-> <<>>], labels |-> <<>>,
     returned |-> FALSE, threw |-> FALSE, domain |-> <<>>]

NoHistory == NoRunHistory /\ lookup = NotAsked

\* The user is not dragging a tab.
NoDrag == busy = FALSE /\ drags = 0

\* A window with no tabs, empty storage: the state the engine's variables keep
\* in the specifications of the queue and of debounce alone.
EngineIdle ==
    /\ win = <<>>
    /\ groups = <<>>
    /\ nextGid = 1
    /\ NoDrag
    /\ groupMappings = <<>>
    /\ groupColors = <<>>
    /\ cachedGroupColors = NoCache
    /\ colorCache = {}
    /\ rev = "current"
    /\ events = 0
    /\ NoHistory

\* A tab as chrome.tabs.query reports it.
Tab(id, url, gid, pinned) == [id |-> id, url |-> url, gid |-> gid, pinned |-> pinned]

\* The browser's state that the platform calls read and change.
Plat == [win |-> win, groups |-> groups, nextGid |-> nextGid]

TabIdsOf(w) == {w[i].id : i \in DOMAIN w}
GidsOf(w) == {w[i].gid : i \in DOMAIN w} \ {NoGroup}
Members(w, gid) == {w[i].id : i \in {j \in DOMAIN w : w[j].gid = gid}}
Selected(w, ids) == SelectSeq(w, LAMBDA tb : tb.id \in ids)
Unselected(w, ids) == SelectSeq(w, LAMBDA tb : tb.id \notin ids)

\* The browser drops a group when its last tab has left it.
Prune(g, w) == [k \in (DOMAIN g) \cap GidsOf(w) |-> g[k]]

\* How a platform call settles: resolved with a value, or rejected with the
\* browser's state as it was.  The calls that change tabs or groups are
\* rejected while the user is dragging a tab ("Tabs cannot be edited right
\* now"), and every call is rejected when what it names is gone.
Resolved(p, val) == [ok |-> TRUE, plat |-> p, val |-> val]
Rejected(p) == [ok |-> FALSE, plat |-> p, val |-> 0]

\* The title and color the browser gives a group that chrome.tabs.group creates.
NewGroupLook == [title |-> <<>>, color |-> "grey"]

\* The length of the run of tabs of group gid at the start of w.
RECURSIVE RunOf(_, _)
RunOf(w, gid) ==
    IF w # <<>> /\ gid # NoGroup /\ Head(w).gid = gid THEN 1 + RunOf(Tail(w), gid) ELSE 0

\* A tab that joins a group is unpinned by the browser.
JoinGroup(sel, gid) == [i \in DOMAIN sel |-> [sel[i] EXCEPT !.gid = gid, !.pinned = FALSE]]

\* The pinned tabs stay at the start of the strip.
PinnedFirst(w) ==
    SelectSeq(w, LAMBDA tb : tb.pinned) \o SelectSeq(w, LAMBDA tb : ~tb.pinned)

\* chrome.tabs.group({ tabIds }): a new group of the tabs, gathered where the
\* first of them is (after what is left of the group it was in).  Rejected when
\* one of the tabs is gone or the strip cannot be edited.
TabsGroupNew(p, ids) ==
    IF busy \/ ids = {} \/ ~(ids \subseteq TabIdsOf(p.win)) THEN Rejected(p)
    ELSE LET w == p.win
             first == CHOOSE i \in DOMAIN w :
                         w[i].id \in ids /\ \A j \in 1..(i - 1) : w[j].id \notin ids
             before == SubSeq(w, 1, first - 1)
             rest == Unselected(SubSeq(w, first, Len(w)), ids)
             k == RunOf(rest, w[first].gid)
             nw == PinnedFirst(before \o SubSeq(rest, 1, k)
                                  \o JoinGroup(Selected(w, ids), p.nextGid)
                                  \o SubSeq(rest, k + 1, Len(rest)))
         IN Resolved([win |-> nw,
                      groups |-> Prune(p.groups, nw) @@ (p.nextGid :> NewGroupLook),
                      nextGid |-> p.nextGid + 1], p.nextGid)

\* chrome.tabs.group({ groupId, tabIds }): the tabs join the group, placed after
\* its last tab.  Rejected when the group or one of the tabs is gone.
TabsGroupInto(p, gid, ids) ==
    IF busy \/ ids = {} \/ ~(ids \subseteq TabIdsOf(p.win)) \/ gid \notin DOMAIN p.groups
    THEN Rejected(p)
    ELSE LET w == p.win
             rest == Unselected(w, ids)
             at == IF \E i \in DOMAIN rest : rest[i].gid = gid
                   THEN CHOOSE i \in DOMAIN rest :
                          rest[i].gid = gid /\ \A j \in (i + 1)..Len(rest) : rest[j].gid # gid
                   ELSE Len(SelectSeq(SubSeq(w, 1,
                          CHOOSE i \in DOMAIN w : w[i].id \in ids
                             /\ \A j \in 1..(i - 1) : w[j].id \notin ids),
                          LAMBDA tb : tb.id \notin ids))
             nw == PinnedFirst(SubSeq(rest, 1, at) \o JoinGroup(Selected(w, ids), gid)
                                  \o SubSeq(rest, at + 1, Len(rest)))
         IN Resolved([p EXCEPT !.win = nw, !.groups = Prune(p.groups, nw)], gid)

Freed(held) == [i \in DOMAIN held |-> [held[i] EXCEPT !.gid = NoGroup]]

\* The strip after the tabs ids have left their groups: a tab that leaves a
\* group that stays is placed after the group's last tab.
RECURSIVE UngroupSeq(_, _, _)
UngroupSeq(w, ids, held) ==
    IF w = <<>> THEN Freed(held)
    ELSE LET h == Head(w)
             rest == Tail(w)
             stays == h.gid # NoGroup
                      /\ \E i \in DOMAIN rest : rest[i].gid = h.gid /\ rest[i].id \notin ids
         IN IF h.id \in ids
            THEN IF stays THEN UngroupSeq(rest, ids, Append(held, h))
                 ELSE <<[h EXCEPT !.gid = NoGroup]>> \o UngroupSeq(rest, ids, held)
            ELSE IF h.gid # NoGroup /\ ~stays
                 THEN <<h>> \o Freed(held) \o UngroupSeq(rest, ids, <<>>)
                 ELSE <<h>> \o UngroupSeq(rest, ids, held)

\* chrome.tabs.ungroup(tabIds).  Rejected when one of the tabs is gone.
TabsUngroupClosing(p, ids) ==
    LET nw == Unselected(p.win, ids)
    IN Resolved([p EXCEPT !.win = nw, !.groups = Prune(p.groups, nw)], 0)
\* chrome.tabs.ungroup(tabIds)
TabsUngroup(p, ids) ==
    IF busy \/ ~(ids \subseteq TabIdsOf(p.win)) THEN Rejected(p)
    ELSE LET nw == UngroupSeq(p.win, ids, <<>>)
         IN Resolved([p EXCEPT !.win = nw, !.groups = Prune(p.groups, nw)], 0)

\* chrome.tabs.move(tabId, { index }): index counts from 0, -1 is the end.
\* The browser keeps a pinned tab among the pinned tabs: it brings the index
\* of the move into their range, and does not reject the call.
TabsMove(p, id, index) ==
    IF busy \/ id \notin TabIdsOf(p.win) THEN Rejected(p)
    ELSE LET rest == Unselected(p.win, {id})
             at == IF index < 0 \/ index > Len(rest) THEN Len(rest) ELSE index
             nw == PinnedFirst(SubSeq(rest, 1, at) \o Selected(p.win, {id})
                                  \o SubSeq(rest, at + 1, Len(rest)))
         IN Resolved([p EXCEPT !.win = nw], 0)

\* chrome.tabGroups.update(groupId, { title, color }).  Rejected when the group
\* is gone or the strip cannot be edited.
GroupsUpdate(p, gid, title, color) ==
    IF busy \/ gid \notin DOMAIN p.groups THEN Rejected(p)
    ELSE Resolved([p EXCEPT !.groups = [p.groups EXCEPT ![gid] =
                                          [title |-> title, color |-> color]]], 0)

\* The user closes a tab.
TabRemoved(p, id) ==
    LET nw == Unselected(p.win, {id})
    IN [p EXCEPT !.win = nw, !.groups = Prune(p.groups, nw)]

-----------------------------------------------------------------------------
(* debounce(func, delay) and debouncedGroupTabsByDomain *)

\* const debouncedGroupTabsByDomain = debounce(groupTabsByDomain, 500): the
\* delay, in units of 250 ms
DebounceDelay == 2

ClearTimeoutSkipped(ts, id) == ts
\* clearTimeout(timeoutId): the timer with that id, if still pending, is dropped
ClearTimeout(ts, id) == {t \in ts : t.id # id}

\* setTimeout(() => func.apply(this, args), delay), called by debounce call n
SetTimeout(n) == [id |-> nextTimer, left |-> DebounceDelay, trig |-> n]

\* No call of the debounced function yet; the last one is "long ago".
DebounceIdle ==
    /\ timers = {}
    /\ timeoutId = 0
    /\ nextTimer = 1
    /\ sinceLast = DebounceDelay + 1
    /\ trigs = <<>>

\* One call of the function debounce returned.  gap: the time since the call
\* before it (history), fired: how often its timer ran func (history).
DebouncedCall ==
    /\ Len(trigs) < MaxTrigs
    /\ timers' = ClearTimeout(timers, timeoutId) \cup {SetTimeout(Len(trigs) + 1)}
    /\ timeoutId' = nextTimer
    /\ nextTimer' = nextTimer + 1
    /\ trigs' = Append(trigs, [gap |-> sinceLast, fired |-> 0])
    /\ sinceLast' = 0

\* Time passes by one unit.  A timer that is due runs before time moves on.
Tick ==
    /\ \A t \in timers : t.left > 0
    /\ timers # {} \/ sinceLast <= DebounceDelay
    /\ timers' = {[t EXCEPT !.left = t.left - 1] : t \in timers}
    /\ sinceLast' = Min(sinceLast + 1, DebounceDelay + 1)
    /\ UNCHANGED <<timeoutId, nextTimer, trigs>>

\* The revision of groupTabsByDomain that runs: the current one ("pass"), the
\* older one with the tail pass, or the batched one.
PassKind ==
    CASE rev = "older" -> "passOld"
      [] rev = "batched" -> "passBatched"
      [] OTHER -> "pass"

\* groupTabsByDomain() is called: it runs to its first await, the answer to
\* chrome.tabs.query({ currentWindow: true }), which holds the tabs as they are.
StartPass(id, by) ==
    [Task(id, PassKind, FALSE, "tabs", by) EXCEPT !.snap = win, !.seen = Plat]

\* A due timer runs func.apply(this, args): groupTabsByDomain starts, outside
\* the queue, and runs to its first await.
TimerFires ==
    \E t \in timers :
        /\ t.left = 0
        /\ timers' = timers \ {t}
        /\ trigs' = [trigs EXCEPT ![t.trig].fired = @ + 1]
        /\ tasks' = tasks \cup {StartPass(t.trig, t.trig)}
        /\ UNCHANGED <<timeoutId, nextTimer, sinceLast>>

-----------------------------------------------------------------------------
(* The debounced function on its own: calls at any time *)

\* Some listener calls debouncedGroupTabsByDomain().
Trigger == DebouncedCall /\ UNCHANGED <<qvars, tasks, evars>>

TimePasses == Tick /\ UNCHANGED <<qvars, tasks, evars>>

TimerRuns == TimerFires /\ UNCHANGED <<qvars, evars>>

InitDebounce == QueueInit /\ DebounceIdle /\ EngineIdle

NextDebounce == Trigger \/ TimePasses \/ TimerRuns

SpecDebounce == InitDebounce /\ [][NextDebounce]_vars

-----------------------------------------------------------------------------
(* The queue on its own: operations of any length, enqueued at any time *)

\* A handler calls enqueue with an operation.
EnqueueAbstract ==
    /\ nextId <= MaxOps
    /\ Enqueue("abstract", NoArg, tasks)
    /\ UNCHANGED <<dvars, evars>>

\* The running operation passes one of its awaits.
AbstractAwait ==
    \E t \in QueueTasks :
        /\ t.kind = "abstract"
        /\ t.n < MaxAwaits
        /\ tasks' = (tasks \ {t}) \cup {[t EXCEPT !.n = t.n + 1]}
        /\ UNCHANGED <<qvars, dvars, evars>>

\* The running operation returns.
AbstractReturn ==
    \E t \in QueueTasks :
        /\ t.kind = "abstract"
        /\ Settle(t, "ok")
        /\ UNCHANGED <<dvars, evars>>

\* The running operation throws, or the promise it returned rejects.
AbstractThrow ==
    \E t \in QueueTasks :
        /\ t.kind = "abstract"
        /\ Settle(t, "failed")
        /\ UNCHANGED <<dvars, evars>>

InitQueue == QueueInit /\ DebounceIdle /\ EngineIdle

NextQueue == EnqueueAbstract \/ AbstractAwait \/ AbstractReturn \/ AbstractThrow

SpecQueue == InitQueue /\ [][NextQueue]_vars

\* Every operation settles: the operation the loop awaits returns or throws
\* at some time.
OperationsSettle == WF_vars(AbstractReturn \/ AbstractThrow)

SpecQueueLive == InitQueue /\ [][NextQueue]_vars /\ OperationsSettle

-----------------------------------------------------------------------------
(* Steps of the routines, as results *)

\* What one step of routine t does: the routine is suspended again as task, or
\* it is done (outcome "ok": it returned, "failed": it threw); plat and cache
\* are the browser's state and cachedGroupColors after the step, colors the
\* store of colorCache after it, made the groups created so far, issued the
\* number of mutating calls the step issued, spawn the routines it started and
\* does not await, gen what its calls of generateColor returned, read its
\* calls of getGroupMappings and getGroupColors, check what its run of
\* checkAndUngroupTab found.
Go(u, p) ==
    [done |-> FALSE, task |-> u, outcome |-> "ok", plat |-> p,
     cache |-> cachedGroupColors, colors |-> colorCache, made |-> made, issued |-> 0,
     spawn |-> {}, gen |-> {}, read |-> {}, check |-> {}]

End(t, outcome) ==
    [done |-> TRUE, task |-> t, outcome |-> outcome, plat |-> Plat,
     cache |-> cachedGroupColors, colors |-> colorCache, made |-> made, issued |-> 0,
     spawn |-> {}, gen |-> {}, read |-> {}, check |-> {}]

\* getGroupMappings(): StorageManager.get("groupMappings") reads the storage
\* each time.
getGroupMappings == groupMappings

\* getGroupColors(): cachedGroupColors if it is set, else what the storage
\* holds (which the callback then stores in cachedGroupColors).
ColorsFrom(cache, stored) == IF cache.set THEN cache.colors ELSE stored
getGroupColors(cache) == ColorsFrom(cache, groupColors)

\* The records of a call of getGroupMappings, of getGroupColors (history).
\* current: the call returns what the storage holds when the call is made.
MappingsRead == [what |-> "groupMappings", current |-> getGroupMappings = groupMappings]
ColorsReadOf(cache, stored) ==
    [what |-> "groupColors", current |-> ColorsFrom(cache, stored) = stored]
ColorsRead(cache) == ColorsReadOf(cache, groupColors)

\* The calls whose answer a routine awaits at pc and that change the browser's state.
MutatingPcs == {"group", "attach", "attachOne", "update", "ungroup", "move"}

\* How many mutating platform calls routine t has in flight.
InFlight(t) ==
    CASE t.pc \in MutatingPcs -> 1
      [] t.pc = "ungroups" -> t.n
      [] OTHER -> 0

-----------------------------------------------------------------------------
(* groupTabsByDomain: classification *)

\* tabsByDomain.get(groupName).push(tab.id), with tabsByDomain.set(groupName, [])
\* first for a new name: a Map keeps its keys in insertion order.
Put(plan, name, id) ==
    IF \E i \in DOMAIN plan : plan[i].name = name
    THEN [i \in DOMAIN plan |->
            IF plan[i].name = name THEN [plan[i] EXCEPT !.ids = Append(@, id)] ELSE plan[i]]
    ELSE Append(plan, [name |-> name, ids |-> <<id>>])

\* The target group name of a tab, Null when getDomain finds no domain.
TargetOf(tb, maps) ==
    LET domain == getDomain(tb.url) IN
    IF domain = Null THEN Null ELSE GroupNameOf(domain, maps)

\* for (const tab of tabs) { if (tab.groupId !== NONE || !tab.url) continue; ... }
RECURSIVE Classify(_, _, _)
Classify(tabs, maps, plan) ==
    IF tabs = <<>> THEN plan
    ELSE LET tb == Head(tabs) IN
         IF tb.gid # NoGroup \/ tb.url.kind = "none" \/ TargetOf(tb, maps) = Null
         THEN Classify(Tail(tabs), maps, plan)
         ELSE Classify(Tail(tabs), maps, Put(plan, TargetOf(tb, maps), tb.id))

JustifiesOne(n) == n >= 1
\* if (tabIds.length >= 2)
Justifies(n) == n >= 2

\* The partitions the loop over tabsByDomain acts on.
Due(plan) == SelectSeq(plan, LAMBDA part : Justifies(Len(part.ids)))

\* existingGroups.find(group => group.title === groupName): the id of the
\* first such group, NoGroup if there is none.
ExistingGroup(g, name) ==
    IF \E k \in DOMAIN g : g[k].title = name
    THEN CHOOSE k \in DOMAIN g : g[k].title = name /\ \A j \in DOMAIN g : g[j].title = name => k <= j
    ELSE NoGroup

\* existingGroups.find(group => group.title.toLowerCase() === groupName.toLowerCase())
ExistingGroupAnyCase(g, name) ==
    ExistingGroup([k \in DOMAIN g |-> [g[k] EXCEPT !.title = ToLowerCase(@)]], ToLowerCase(name))

-----------------------------------------------------------------------------
(* groupTabsByDomain: the loop over the partitions *)

\* moveSingleTabs() is called and not awaited: it runs to its first await, the
\* answer to chrome.tabs.query({ currentWindow: true }).
Mover(t) == [Task(t.id, "mover", FALSE, "tabs", t.by) EXCEPT !.snap = win, !.seen = Plat]

\* The routine leaves its try block, at its end or through its catch.  The
\* older revision then calls moveSingleTabs().
Leave(t) ==
    IF t.kind = "passOld" THEN [End(t, "ok") EXCEPT !.spawn = {Mover(t)}] ELSE End(t, "ok")

\* A platform call of the loop was rejected: the routine's catch takes it; a
\* batch operation has no catch and rejects.
Thrown(t) == IF t.kind = "batch" THEN End(t, "failed") ELSE Leave(t)

\* The tabs the routine read that are among ids, and their target names.
TargetsOf(t, ids) ==
    {TargetOf(t.snap[i], t.maps) : i \in {j \in DOMAIN t.snap : t.snap[j].id \in ids}}

\* The record of a chrome.tabs.group call (history).  new: it created a group;
\* stale: one of its tabs, ungrouped when the routine read the tabs, was in a
\* group when the call was issued; pinned, grouped: one of its tabs was pinned,
\* was in a group, when the routine read the tabs.
Call(t, part, gid, new) ==
    [by |-> t.id, kind |-> t.kind, gid |-> gid, new |-> new, name |-> part.name,
     ids |-> Range(part.ids), targets |-> TargetsOf(t, Range(part.ids)),
     pinned |-> \E i \in DOMAIN t.snap : t.snap[i].id \in Range(part.ids) /\ t.snap[i].pinned,
     grouped |-> \E i \in DOMAIN t.snap :
                   t.snap[i].id \in Range(part.ids) /\ t.snap[i].gid # NoGroup,
     stale |-> \E i \in DOMAIN win : win[i].id \in Range(part.ids) /\ win[i].gid # NoGroup]

\* chrome.tabs.group for the partition at the head of plan: into the existing
\* group titled like it (the current revision looks for one), or a new group.
IssueGroup(t, cache) ==
    LET part == Head(t.plan)
        ids == Range(part.ids)
        existing == IF t.kind = "pass" THEN ExistingGroup(t.gsnap, part.name) ELSE NoGroup
        res == IF existing # NoGroup THEN TabsGroupInto(Plat, existing, ids)
                                     ELSE TabsGroupNew(Plat, ids)
        u == [t EXCEPT !.pc = IF existing # NoGroup THEN "attach" ELSE "group",
                       !.ok = res.ok, !.cur = res.val]
    IN [Go(u, res.plat) EXCEPT !.cache = cache, !.issued = 1,
           !.made = IF res.ok THEN Append(made, Call(t, part, res.val, existing = NoGroup))
                    ELSE made]

\* for (const [groupName, tabIds] of tabsByDomain) { if (tabIds.length >= 2) {
\* const color = await generateColor(groupName): suspended only when
\* getGroupColors has to read the storage.
LoopTurn(t, cache) ==
    IF t.plan = <<>> THEN Leave(t)
    ELSE IF ~cache.set
         THEN [Go([t EXCEPT !.pc = "colors", !.got = getGroupColors(cache)], Plat)
                 EXCEPT !.read = {ColorsRead(cache)}]
         ELSE LET name == Head(t.plan).name
                  gen == generateColor(name, getGroupColors(cache), colorCache)
              IN [IssueGroup([t EXCEPT !.color = gen.color], cache)
                    EXCEPT !.colors = gen.store,
                           !.gen = {Returned(t.id, name, gen)},
                           !.read = IF t.pc = "colors" THEN {} ELSE {ColorsRead(cache)}]

\* The storage answered getGroupColors: cachedGroupColors = result.groupColors
\* (or {}), generateColor returns, the loop body goes on to chrome.tabs.group.
GotColors(t) == LoopTurn(t, Cached(t.got))

\* chrome.tabs.group({ tabIds }) answered: chrome.tabGroups.update(newGroup, { title, color })
Grouped(t) ==
    IF ~t.ok THEN Thrown(t)
    ELSE LET res == GroupsUpdate(Plat, t.cur, TitleOf(Head(t.plan).name), t.color)
         IN [Go([t EXCEPT !.pc = "update", !.ok = res.ok], res.plat) EXCEPT !.issued = 1]

\* The last call of the loop body answered: the next partition.
Updated(t) ==
    IF ~t.ok THEN Thrown(t) ELSE LoopTurn([t EXCEPT !.plan = Tail(@)], cachedGroupColors)

-----------------------------------------------------------------------------
(* groupTabsByDomain, current revision *)

\* chrome.tabs.query answered: Promise.all([getGroupMappings(), chrome.tabGroups.query(...)])
GotTabs(t) ==
    [Go([t EXCEPT !.pc = "groups", !.maps = getGroupMappings, !.gsnap = groups], Plat)
       EXCEPT !.read = {MappingsRead}]

\* await getDomain(tab.url) in the classification throws for one of the tabs.
DomainThrows(tabs) ==
    \E i \in DOMAIN tabs :
        /\ tabs[i].gid = NoGroup
        /\ tabs[i].url.kind # "none"
        /\ GetDomainSettles(tabs[i].url).threw

\* Both answered: the classification, then the loop.  What the
\* classification throws is taken by the catch of the pass, which logs it.
GotGroups(t) ==
    LET all == Classify(t.snap, t.maps, <<>>)
    IN IF DomainThrows(t.snap) THEN End(t, "ok")
       ELSE LoopTurn([t EXCEPT !.kept = all, !.plan = Due(all)], cachedGroupColors)

-----------------------------------------------------------------------------
(* removeEmptyGroups, as the queued operation of the onRemoved listener *)

\* The 50 ms timer of the operation ran out: removeEmptyGroups() is called and
\* issues Promise.all([chrome.tabs.query(...), chrome.tabGroups.query(...)]).
Delayed(t) == Go([t EXCEPT !.pc = "read", !.snap = win, !.gsnap = groups], Plat)

TooSmallNever(count) == count < 1
\* (groupCounts[group.id] || 0) < 2
TooSmall(count) == count < 2

\* groupsToUngroup and tabsToUngroup
GroupsToUngroup(tabs, g) == {k \in DOMAIN g : TooSmall(Cardinality(Members(tabs, k)))}
TabsToUngroup(tabs, g) ==
    {tabs[i].id : i \in {j \in DOMAIN tabs : tabs[j].gid \in GroupsToUngroup(tabs, g)}}

\* Both queries answered: chrome.tabs.ungroup(tabsToUngroup), if there are any.
ReadDone(t) ==
    LET ids == TabsToUngroup(t.snap, t.gsnap)
        res == TabsUngroup(Plat, ids)
    IN IF ids = {} THEN End(t, "ok")
       ELSE [Go([t EXCEPT !.pc = "ungroup", !.ok = res.ok, !.n = Cardinality(ids)], res.plat)
               EXCEPT !.issued = 1]

\* chrome.tabs.ungroup answered; a rejection is logged and thrown again.
Ungrouped(t) == End(t, IF t.ok THEN "ok" ELSE "failed")

-----------------------------------------------------------------------------
(* ungroupAllTabs *)

StartUngroupAllOfNone(id) ==
    [Task(id, "ungroupAll", FALSE, "tabs", 0) EXCEPT !.snap = <<>>, !.seen = Plat]
\* ungroupAllTabs() is called: it runs to its first await, chrome.tabs.query.
StartUngroupAll(id) ==
    [Task(id, "ungroupAll", FALSE, "tabs", 0) EXCEPT !.snap = win, !.seen = Plat]

\* tabs.map(tab => chrome.tabs.ungroup(tab.id)): one call per tab, issued one
\* after the other without waiting.  ok: none was rejected.
RECURSIVE UngroupEach(_, _)
UngroupEach(p, tabs) ==
    IF tabs = <<>> THEN Resolved(p, 0)
    ELSE LET one == TabsUngroup(p, {Head(tabs).id})
             rest == UngroupEach(one.plat, Tail(tabs))
         IN [rest EXCEPT !.ok = one.ok /\ rest.ok]

\* chrome.tabs.query answered: await Promise.all(tabs.map(...))
GotAllTabs(t) ==
    LET res == UngroupEach(Plat, t.snap)
    IN [Go([t EXCEPT !.pc = "ungroups", !.ok = res.ok, !.n = Len(t.snap)], res.plat)
          EXCEPT !.issued = Len(t.snap)]

\* Promise.all settled; a rejection is logged.
AllUngrouped(t) == End(t, "ok")

-----------------------------------------------------------------------------
(* One step of a routine *)

SetPlat(p) == win' = p.win /\ groups' = p.groups /\ nextGid' = p.nextGid

\* Since routine t's first call, the browser's state changed by t's calls only.
Undisturbed(t) == t.clean /\ (t.seen = NotSeen \/ t.seen = Plat)

\* What is remembered of routine t when it is done (history).
Done(t, outcome) ==
    [kind |-> t.kind, id |-> t.id, ok |-> outcome = "ok",
     clean |-> Undisturbed(t), n |-> t.n, pc |-> t.pc]

\* Routine t, suspended, is resumed and runs its step r.
Run(t, r) ==
    /\ IF r.done
       THEN /\ IF t.viaQueue THEN Settle(t, r.outcome)
               ELSE tasks' = (tasks \ {t}) \cup r.spawn /\ UNCHANGED qvars
            /\ lastDone' = Done(t, r.outcome)
       ELSE /\ tasks' = (tasks \ {t}) \cup
                           {[r.task EXCEPT !.seen = r.plat, !.clean = Undisturbed(t)]}
            /\ UNCHANGED <<qvars, lastDone>>
    /\ SetPlat(r.plat)
    /\ UNCHANGED <<busy, drags>>
    /\ cachedGroupColors' = r.cache
    /\ colorCache' = r.colors
    /\ returned' = returned \cup r.gen
    /\ reads' = reads \cup r.read
    /\ checks' = checks \cup r.check
    /\ made' = r.made
    /\ reissued' = IF passNo >= 2 THEN reissued + r.issued ELSE reissued
    /\ UNCHANGED <<dvars, groupMappings, groupColors, rev, events, passNo, atPass, lookup, saves, asked, limiter>>

At(kind, pc) == {t \in tasks : t.kind = kind /\ t.pc = pc}

PassGotTabs == \E t \in At("pass", "tabs") : Run(t, GotTabs(t))
PassGotGroups == \E t \in At("pass", "groups") : Run(t, GotGroups(t))
PassGotColors == \E t \in At("pass", "colors") : Run(t, GotColors(t))
PassGrouped == \E t \in At("pass", "group") : Run(t, Grouped(t))
PassAttached == \E t \in At("pass", "attach") : Run(t, Updated(t))
PassUpdated == \E t \in At("pass", "update") : Run(t, Updated(t))
CleanupDelayed == \E t \in At("cleanup", "delay") : Run(t, Delayed(t))
CleanupReadDone == \E t \in At("cleanup", "read") : Run(t, ReadDone(t))
CleanupUngrouped == \E t \in At("cleanup", "ungroup") : Run(t, Ungrouped(t))
UngroupAllGotTabs == \E t \in At("ungroupAll", "tabs") : Run(t, GotAllTabs(t))
UngroupAllDone == \E t \in At("ungroupAll", "ungroups") : Run(t, AllUngrouped(t))

-----------------------------------------------------------------------------
(* groupTabsByDomain, older revision, and moveSingleTabs *)

\* chrome.tabs.query answered: if (tabs.length <= 1) return, which leaves the
\* function; else await getGroupMappings()
OldGotTabs(t) ==
    IF Len(t.snap) <= 1 THEN End(t, "ok")
    ELSE Go([t EXCEPT !.pc = "maps", !.maps = groupMappings], Plat)

\* The storage answered: await chrome.tabGroups.query(...)
OldGotMaps(t) == Go([t EXCEPT !.pc = "groups", !.gsnap = groups], Plat)

\* tabs.filter(tab => tab.url && !tab.pinned && tab.groupId === NONE)
UngroupedTabs(tabs) ==
    SelectSeq(tabs, LAMBDA tb : tb.url.kind # "none" /\ ~tb.pinned /\ tb.gid = NoGroup)

\* groupResults: { groupName, tabId } of the filtered tabs that have a domain
Results(tabs, maps) ==
    LET found == SelectSeq(UngroupedTabs(tabs), LAMBDA tb : TargetOf(tb, maps) # Null)
    IN [i \in DOMAIN found |-> [name |-> TargetOf(found[i], maps), id |-> found[i].id]]

\* remainingResults.forEach(result => domainGroups.get(result.groupName).push(result.tabId))
RECURSIVE PartitionOf(_, _)
PartitionOf(results, plan) ==
    IF results = <<>> THEN plan
    ELSE PartitionOf(Tail(results), Put(plan, Head(results).name, Head(results).id))

\* The first loop, over the results still in todo: a result whose name an
\* existing group has (in any case) is sent to it with chrome.tabs.group; after
\* the loop, the results kept are partitioned and the second loop starts.
RECURSIVE AttachTurn(_)
AttachTurn(t) ==
    IF t.todo = <<>>
    THEN LoopTurn([t EXCEPT !.plan = Due(PartitionOf(t.kept, <<>>))], cachedGroupColors)
    ELSE LET r == Head(t.todo)
             existing == ExistingGroupAnyCase(t.gsnap, r.name)
             res == TabsGroupInto(Plat, existing, {r.id})
         IN IF existing = NoGroup THEN AttachTurn([t EXCEPT !.todo = Tail(@)])
            ELSE [Go([t EXCEPT !.pc = "attachOne", !.ok = res.ok], res.plat)
                    EXCEPT !.issued = 1,
                           !.made = IF res.ok
                                    THEN Append(made, Call(t, [name |-> r.name, ids |-> <<r.id>>],
                                                           existing, FALSE))
                                    ELSE made]

\* chrome.tabGroups.query answered; the promises of groupTasks are settled by
\* then.  The first loop starts.
OldGotGroups(t) ==
    LET results == Results(t.snap, t.maps)
    IN AttachTurn([t EXCEPT !.todo = results, !.kept = results])

\* chrome.tabs.group({ tabIds, groupId }) answered: the result is spliced out
\* of groupResults, or the rejection is logged; the next result.
OldAttached(t) ==
    LET r == Head(t.todo)
    IN AttachTurn([t EXCEPT !.todo = Tail(@),
                            !.kept = IF t.ok THEN SelectSeq(@, LAMBDA x : x # r) ELSE @])

MoveIndexStart(tabs) == 0
\* moveSingleTabs: const index = tabs.length - 1; moveSingleTabsToStart of the
\* oldest revision: { index: -1 }
MoveIndex(tabs) == IF rev = "oldest" THEN -1 ELSE Len(tabs) - 1

\* for (const tab of ungroupedTabs) { await chrome.tabs.move(tab.id, { index }) }
\* kept: the tabs whose move was rejected (history).
MoveTurn(t) ==
    IF t.todo = <<>> THEN End(t, "ok")
    ELSE LET res == TabsMove(Plat, Head(t.todo).id, t.n)
         IN [Go([t EXCEPT !.pc = "move", !.ok = res.ok,
                          !.kept = IF res.ok THEN @ ELSE Append(@, Head(t.todo))],
                res.plat) EXCEPT !.issued = 1]

\* The loop over the ungrouped tabs begins.
MoveLoop(t) ==
    MoveTurn([t EXCEPT !.todo = SelectSeq(t.snap, LAMBDA tb : tb.gid = NoGroup),
                       !.n = MoveIndex(t.snap), !.kept = <<>>])

\* chrome.tabs.query answered: the ungrouped tabs and the index; the oldest
\* revision first awaits chrome.tabGroups.query(...)
MoverGotTabs(t) ==
    IF rev = "oldest" THEN Go([t EXCEPT !.pc = "groups", !.gsnap = groups], Plat)
    ELSE MoveLoop(t)

\* chrome.tabGroups.query answered (oldest revision): the loop
MoverGotGroups(t) == MoveLoop(t)

\* chrome.tabs.move answered: the next tab.  moveSingleTabs logs a rejection
\* in the loop; in the oldest revision it ends the loop, by the outer catch.
Moved(t) ==
    IF rev = "oldest" /\ ~t.ok THEN End(t, "ok") ELSE MoveTurn([t EXCEPT !.todo = Tail(@)])

OldPassGotTabs == \E t \in At("passOld", "tabs") : Run(t, OldGotTabs(t))
OldPassGotMaps == \E t \in At("passOld", "maps") : Run(t, OldGotMaps(t))
OldPassGotGroups == \E t \in At("passOld", "groups") : Run(t, OldGotGroups(t))
OldPassAttached == \E t \in At("passOld", "attachOne") : Run(t, OldAttached(t))
OldPassGotColors == \E t \in At("passOld", "colors") : Run(t, GotColors(t))
OldPassGrouped == \E t \in At("passOld", "group") : Run(t, Grouped(t))
OldPassUpdated == \E t \in At("passOld", "update") : Run(t, Updated(t))
MoverGotTabsStep == \E t \in At("mover", "tabs") : Run(t, MoverGotTabs(t))
MoverMoved == \E t \in At("mover", "move") : Run(t, Moved(t))
MoverGotGroupsStep == \E t \in At("mover", "groups") : Run(t, MoverGotGroups(t))

-----------------------------------------------------------------------------
(* groupTabsByDomain, batched revision *)

\* const batchSize = 5
batchSize == 5

\* ungroupedTabs.slice(i, i + batchSize), and what is left after it
FirstBatch(todo) == SubSeq(todo, 1, Min(batchSize, Len(todo)))
AfterBatch(todo) == SubSeq(todo, Min(batchSize, Len(todo)) + 1, Len(todo))

\* chrome.tabs.query answered: if (tabs.length <= 1) return; else
\* Promise.all([getGroupMappings(), chrome.tabGroups.query(...)])
BatchedGotTabs(t) ==
    IF Len(t.snap) <= 1 THEN End(t, "ok")
    ELSE Go([t EXCEPT !.pc = "groups", !.maps = groupMappings, !.gsnap = groups], Plat)

\* One turn of the loop over the batches, u being the routine with its locals:
\* await tabOperationQueue.enqueue(async () => {...}) for the next batch, or
\* the end of the routine.  n: whether enqueue awaits processQueue; cur: the
\* number of the enqueue call (history).
BatchTurn(t, u) ==
    /\ IF u.todo = <<>>
       THEN /\ tasks' = tasks \ {t}
            /\ lastDone' = Done(t, "ok")
            /\ UNCHANGED qvars
       ELSE /\ Enqueue("batch", [batch |-> FirstBatch(u.todo), maps |-> u.maps],
                       (tasks \ {t}) \cup
                          {[u EXCEPT !.pc = "enqueued",
                                     !.n = IF EnqueueCallsProcessQueue(processing) THEN 1 ELSE 0,
                                     !.cur = nextId,
                                     !.seen = Plat, !.clean = Undisturbed(t)]})
            /\ UNCHANGED lastDone
    /\ UNCHANGED <<dvars, pvars, svars, rev, events, made, passNo, atPass, reissued,
                   returned, reads, checks, lookup, saves, asked, limiter>>

\* Both answered: the ungrouped tabs, then the first batch.
BatchedGotGroups ==
    \E t \in At("passBatched", "groups") :
        BatchTurn(t, [t EXCEPT !.todo = UngroupedTabs(t.snap)])

\* enqueue returned (with processQueue, if it awaited it): the next batch.
BatchedResumes ==
    \E t \in At("passBatched", "enqueued") :
        /\ t.n = 0 \/ ~processing
        /\ BatchTurn(t, [t EXCEPT !.todo = AfterBatch(@)])

\* batch.forEach((tab, index) => { if (!domain) return; ... push(tab.id) })
RECURSIVE ClassifyBatch(_, _, _)
ClassifyBatch(batch, maps, plan) ==
    IF batch = <<>> THEN plan
    ELSE IF TargetOf(Head(batch), maps) = Null
         THEN ClassifyBatch(Tail(batch), maps, plan)
         ELSE ClassifyBatch(Tail(batch), maps,
                            Put(plan, TargetOf(Head(batch), maps), Head(batch).id))

\* The operation of a batch, after await Promise.all(domainPromises): the
\* batch's own partitions, then the loop over them.
BatchDomains(t) ==
    LET all == ClassifyBatch(t.snap, t.maps, <<>>)
    IN LoopTurn([t EXCEPT !.kept = all, !.plan = Due(all)], cachedGroupColors)

BatchedPassGotTabs == \E t \in At("passBatched", "tabs") : Run(t, BatchedGotTabs(t))
BatchGotDomains == \E t \in At("batch", "domains") : Run(t, BatchDomains(t))
BatchGotColors == \E t \in At("batch", "colors") : Run(t, GotColors(t))
BatchGrouped == \E t \in At("batch", "group") : Run(t, Grouped(t))
BatchUpdated == \E t \in At("batch", "update") : Run(t, Updated(t))

-----------------------------------------------------------------------------
(* The listeners and the script as a whole (current revision) *)

\* The sites of the tabs: two hosts of one domain and one of another.
Sites == { Url("ok", <<"w","w","w",".","a",".","c","o","m">>),
           Url("ok", <<"b",".","i","o">>) }

\* A window of ungrouped tabs with these urls, ids in strip order.
WindowOf(urls) == [i \in DOMAIN urls |-> Tab(i, urls[i], NoGroup, FALSE)]

\* What the options page may have stored as groupMappings.
MappingChoices == { <<>>, <<Entry(<<"a",".","c","o","m">>, <<"D","e","v">>)>> }

\* A group name longer than 15 characters.
LongName == <<"S","o","f","t","w","a","r","e"," ","D","e","v","e","l","o","p","m","e","n","t">>

SeqMappingChoices == MappingChoices \cup { <<Entry(<<"a",".","c","o","m">>, LongName)>> }

\* The window w with its first k tabs pinned.
Pin(w, k) == [i \in DOMAIN w |-> [w[i] EXCEPT !.pinned = (i <= k)]]

\* The script is loaded: nothing stored in its variables, no routine running.
ScriptLoaded ==
    /\ QueueInit
    /\ DebounceIdle
    /\ tasks = {}
    /\ cachedGroupColors = NoCache
    /\ colorCache = {}
    /\ events = 0
    /\ NoHistory

\* A window of ungrouped tabs with urls among these, no groups.
FreshWindow(urlChoices) ==
    /\ win \in {WindowOf(urls) : urls \in urlChoices}
    /\ groups = <<>>
    /\ nextGid = 1
    /\ NoDrag

\* The windows the script is started on: the first and the last tab are on
\* one site, with a tab on another site between them.
StartUrls == {urls \in [1..MaxTabs -> Sites] :
                 urls[1] = urls[MaxTabs] /\ \E i \in 1..MaxTabs : urls[i] # urls[1]}

Init ==
    /\ ScriptLoaded
    /\ FreshWindow(StartUrls)
    /\ groupMappings \in MappingChoices
    /\ groupColors = <<>>
    /\ rev = "current"

\* chrome.tabs.onUpdated (status complete), chrome.runtime.onMessage
\* (groupTabs) or chrome.runtime.onInstalled: debouncedGroupTabsByDomain()
OnTrigger ==
    /\ events < MaxEvents
    /\ events' = events + 1
    /\ DebouncedCall
    /\ UNCHANGED <<qvars, tasks, pvars, svars, rev, hvars>>

\* chrome.runtime.onMessage (ungroupTabs): ungroupAllTabs(), not awaited
OnUngroupMessage ==
    /\ events < MaxEvents
    /\ events' = events + 1
    /\ tasks' = tasks \cup {StartUngroupAll(events + 1)}
    /\ UNCHANGED <<qvars, dvars, pvars, svars, rev, hvars>>

\* The user closes a tab; chrome.tabs.onRemoved: the cleanup is enqueued
OnRemoved ==
    /\ events < MaxEvents
    /\ events' = events + 1
    /\ \E i \in DOMAIN win : SetPlat(TabRemoved(Plat, win[i].id))
    /\ Enqueue("cleanup", NoArg, tasks)
    /\ UNCHANGED <<dvars, busy, drags, svars, rev, hvars>>

Next ==
    \/ OnTrigger \/ OnUngroupMessage \/ OnRemoved
    \/ TimePasses \/ TimerRuns
    \/ PassGotTabs \/ PassGotGroups \/ PassGotColors
    \/ PassGrouped \/ PassAttached \/ PassUpdated
    \/ CleanupDelayed \/ CleanupReadDone \/ CleanupUngrouped
    \/ UngroupAllGotTabs \/ UngroupAllDone

Spec == Init /\ [][Next]_vars

-----------------------------------------------------------------------------
(* Passes run one after the other, with no event between or during them, by *)
(* each revision of groupTabsByDomain                                       *)

SeqUrls == UNION {[1..n -> Sites] : n \in 0..MaxSeqTabs}

\* The window as an earlier pass leaves its first two tabs: in one group with
\* their name as title.
WithGroup(w, maps) ==
    LET name == TargetOf(w[1], maps)
        p == TabsGroupNew([win |-> w, groups |-> <<>>, nextGid |-> 1], {w[1].id, w[2].id}).plat
    IN GroupsUpdate(p, 1, TitleOf(name), HashColor(name)).plat

\* The same, with the color generateColor gives the name for these stored colors.
WithGroupColored(w, maps, colors) ==
    LET name == TargetOf(w[1], maps)
        p == TabsGroupNew([win |-> w, groups |-> <<>>, nextGid |-> 1], {w[1].id, w[2].id}).plat
    IN GroupsUpdate(p, 1, TitleOf(name), ColorOf(name, colors)).plat

\* The windows a pass may find: all tabs ungrouped and the first few of them
\* pinned, or the first two (of one site) in a group already.
StartsOf(urlChoices, maps) ==
    {[win |-> Pin(WindowOf(urls[1]), urls[2]), groups |-> <<>>, nextGid |-> 1] :
        urls \in {c \in urlChoices \X (0..MaxPinned) : c[2] <= Len(c[1])}}
    \cup {WithGroup(WindowOf(urls), maps) :
             urls \in {u \in urlChoices : Len(u) >= 2 /\ u[1] = u[2]}}

SeqStarts(maps) == StartsOf(SeqUrls, maps)

InitSeq ==
    /\ ScriptLoaded
    /\ groupMappings \in SeqMappingChoices
    /\ groupColors = <<>>
    /\ rev \in {"current", "older", "batched"}
    /\ NoDrag
    /\ \E p \in SeqStarts(groupMappings) :
          win = p.win /\ groups = p.groups /\ nextGid = p.nextGid

\* groupTabsByDomain() is called when the pass before it, and what that pass
\* started, has ended.
RunPass ==
    /\ tasks = {}
    /\ ~processing
    /\ passNo < MaxPasses
    /\ passNo' = passNo + 1
    /\ atPass' = Plat
    /\ tasks' = {StartPass(passNo + 1, 0)}
    /\ UNCHANGED <<qvars, dvars, pvars, svars, rev, events, made, reissued, lastDone,
                   returned, reads, checks, lookup, saves, asked, limiter>>

NextSeq ==
    \/ RunPass
    \/ PassGotTabs \/ PassGotGroups \/ PassGotColors
    \/ PassGrouped \/ PassAttached \/ PassUpdated
    \/ OldPassGotTabs \/ OldPassGotMaps \/ OldPassGotGroups \/ OldPassAttached
    \/ OldPassGotColors \/ OldPassGrouped \/ OldPassUpdated
    \/ MoverGotTabsStep \/ MoverMoved
    \/ BatchedPassGotTabs \/ BatchedGotGroups \/ BatchedResumes
    \/ BatchGotDomains \/ BatchGotColors \/ BatchGrouped \/ BatchUpdated

SpecSeq == InitSeq /\ [][NextSeq]_vars

-----------------------------------------------------------------------------
(* Passes run one after the other while the user may drag a tab: the calls  *)
(* that edit the tab strip are rejected for as long as the drag lasts       *)

DragUrls == UNION {[1..n -> Sites] : n \in 0..MaxDragTabs}

\* What the options page may have stored as groupColors.
ColorChoices == { <<>>, <<Entry(<<"a">>, "red")>> }

InitDrag ==
    /\ ScriptLoaded
    /\ groupMappings \in MappingChoices
    /\ groupColors \in ColorChoices
    /\ rev \in {"current", "older", "batched"}
    /\ NoDrag
    /\ \E p \in StartsOf(DragUrls, groupMappings) :
          win = p.win /\ groups = p.groups /\ nextGid = p.nextGid

\* The user begins to drag a tab: the strip cannot be edited until the drop.
DragStarts ==
    /\ ~busy
    /\ drags < MaxDrags
    /\ busy' = TRUE
    /\ drags' = drags + 1
    /\ UNCHANGED <<qvars, tasks, dvars, win, groups, nextGid, svars, rev, events, hvars>>

\* The user drops the tab where it was.
DragEnds ==
    /\ busy
    /\ busy' = FALSE
    /\ UNCHANGED <<qvars, tasks, dvars, win, groups, nextGid, drags, svars, rev, events, hvars>>

NextDrag == NextSeq \/ DragStarts \/ DragEnds

SpecDrag == InitDrag /\ [][NextDrag]_vars

-----------------------------------------------------------------------------
(* C1: at most one operation passed to enqueue is executing (started and not *)
(* yet settled) at any time, whenever the enqueue calls are made.            *)
AtMostOneExecuting == Cardinality(QueueTasks) <= 1

\* An enqueue call was made while the running operation was suspended at an await.
EnqueuedWhileSuspended ==
    \E t \in QueueTasks : t.n >= 1 /\ Len(queue) >= 2 /\ processing

(* C2: queued operations start in the order of their enqueue calls (ids are *)
(* given in that order), and one starts only when every earlier one has     *)
(* settled.                                                                 *)
StartsInEnqueueOrder ==
    /\ \A k \in 1..Len(started) : started[k] = k
    /\ \A t \in QueueTasks : \A j \in 1..(t.id - 1) : j \in DOMAIN settled

\* Three operations have started, the third while a fourth was waiting.
ThreeStartedInOrder == Len(started) >= 3 /\ Len(queue) >= 1

(* C3: a failing operation is caught inside the queue; the operations       *)
(* enqueued after it still run, and once the loop has ended the flag is     *)
(* clear and nothing is left waiting, so a later enqueue runs at once.      *)
FailureIsolated ==
    /\ \A i \in DOMAIN settled : settled[i] # "escaped"
    /\ (QueueTasks = {}) =>
          /\ processing = FALSE
          /\ queue = <<>>
          /\ \A i \in 1..(nextId - 1) : i \in DOMAIN settled

\* Operation 1 failed, operation 2 (enqueued before 1 failed) ran, and an
\* operation enqueued after the loop ended ran as well.
RanAfterFailure ==
    /\ 1 \in DOMAIN settled /\ settled[1] = "caught"
    /\ 2 \in DOMAIN settled /\ settled[2] = "ok"
    /\ 3 \in DOMAIN settled /\ settled[3] = "ok"
    /\ started = <<1, 2, 3>>
    /\ QueueTasks = {}

(* C6: of a burst of calls of the debounced function, each less than the    *)
(* delay after the one before, only the last starts a pass, and it starts   *)
(* exactly one: a call followed by another within the delay never fires, no *)
(* call fires twice, and a call not followed by another within the delay    *)
(* has fired once the delay has passed.                                     *)
DebounceCoalesces ==
    \A i \in 1..Len(trigs) :
        LET next == IF i < Len(trigs) THEN trigs[i + 1].gap ELSE sinceLast IN
        /\ trigs[i].fired <= 1
        /\ (i < Len(trigs) /\ next < DebounceDelay) => trigs[i].fired = 0
        /\ next > DebounceDelay => trigs[i].fired = 1
        /\ Cardinality({t \in tasks : t.kind = "pass" /\ t.by = i}) = trigs[i].fired

\* A burst of three calls, each less than the delay after the one before, has
\* ended and its last call has started the pass.
BurstOfThreeFired ==
    /\ Len(trigs) = 3
    /\ trigs[2].gap < DebounceDelay /\ trigs[3].gap < DebounceDelay
    /\ trigs[3].fired = 1
    /\ sinceLast > DebounceDelay

(* C4: two invocations of groupTabsByDomain never overlap (no second one is  *)
(* running while an earlier one is between its first read and its last       *)
(* write), so no two of them both create a group for the same tabs, the      *)
(* later one for tabs the earlier one has grouped already.                   *)
PassKinds == {"pass", "passOld", "passBatched"}

PassesNeverOverlap ==
    /\ Cardinality({t \in tasks : t.kind \in PassKinds}) <= 1
    /\ \A i, j \in DOMAIN made :
          (i < j /\ made[i].new /\ made[j].new /\ made[i].by # made[j].by
             /\ made[i].ids = made[j].ids) => ~made[j].stale

(* C5: every mutating platform call in flight was issued by an operation     *)
(* running on the queue, and at most one mutating call is in flight.         *)
MutationsThroughQueue ==
    /\ \A t \in tasks : InFlight(t) > 0 => t.viaQueue /\ InFlight(t) = 1
    /\ Cardinality({t \in tasks : InFlight(t) > 0}) <= 1

(* C7: a pass creates a group only from a partition of at least 2 tabs that  *)
(* all have the group's name as target, and a tab that is alone in its       *)
(* partition is in no group the pass creates.                                *)
MinimumGroupSize ==
    /\ \A i \in DOMAIN made :
          made[i].new => Cardinality(made[i].ids) >= 2 /\ made[i].targets = {made[i].name}
    /\ \A t \in tasks : \A k \in DOMAIN t.kept :
          (t.kind = "pass" /\ Len(t.kept[k].ids) = 1) =>
              ~\E i \in DOMAIN made : /\ made[i].by = t.id
                                       /\ made[i].kind = t.kind
                                       /\ t.kept[k].ids[1] \in made[i].ids

\* A pass has created a group of two tabs and left the tab that is alone in
\* its partition ungrouped.
SingleLeftUngrouped ==
    \E t \in At("pass", "update") :
        /\ t.ok
        /\ \E i \in DOMAIN made : made[i].by = t.id /\ made[i].new
        /\ \E k \in DOMAIN t.kept :
              /\ Len(t.kept[k].ids) = 1
              /\ \E i \in DOMAIN win : win[i].id = t.kept[k].ids[1] /\ win[i].gid = NoGroup

\* No group of the window has fewer than 2 tabs.
NoSmallGroup == \A g \in DOMAIN groups : Cardinality(Members(win, g)) >= 2

\* In this step removeEmptyGroups returns normally.
CleanupReturns ==
    lastDone' # lastDone /\ lastDone'.kind = "cleanup" /\ lastDone'.ok

(* C9 as stated: when removeEmptyGroups has completed, no group of the       *)
(* window has fewer than 2 tabs.                                             *)
CleanupLeavesNoSmallGroup == [][CleanupReturns => NoSmallGroup']_vars

(* C9: when removeEmptyGroups returns normally and no one else has changed   *)
(* the tabs or groups since it read them, no group of the window has fewer   *)
(* than 2 tabs.                                                              *)
UndisturbedCleanupLeavesNoSmallGroup ==
    [][(CleanupReturns /\ lastDone'.clean) => NoSmallGroup']_vars

\* removeEmptyGroups has just dissolved a group, undisturbed.
CleanupDissolvedGroup ==
    /\ lastDone.kind = "cleanup" /\ lastDone.ok /\ lastDone.clean /\ lastDone.n >= 1
    /\ NoSmallGroup

\* A tab the pass may group: it has a url and a domain and is in no group.
Eligible(tb) ==
    tb.url.kind # "none" /\ ~tb.pinned /\ tb.gid = NoGroup /\ TargetOf(tb, groupMappings) # Null

\* The group tab id is in now (NoGroup also when the tab is gone).
GroupNow(id) ==
    IF \E i \in DOMAIN win : win[i].id = id
    THEN win[CHOOSE i \in DOMAIN win : win[i].id = id].gid
    ELSE NoGroup

\* A pass, with all it started, has ended.
PassEnded == passNo >= 1 /\ tasks = {} /\ ~processing /\ Len(queue) = 0

(* C8: when a pass has ended, with no platform failure and no tab event      *)
(* during it, any two tabs that were eligible at its start and have the same *)
(* target group name are in one group, however many tabs there are and       *)
(* whatever their order.                                                     *)
GroupingComplete ==
    PassEnded =>
        \A i, j \in DOMAIN atPass.win :
            LET a == atPass.win[i]
                b == atPass.win[j]
            IN (i # j /\ Eligible(a) /\ Eligible(b)
                  /\ TargetOf(a, groupMappings) = TargetOf(b, groupMappings))
               => GroupNow(a.id) # NoGroup /\ GroupNow(a.id) = GroupNow(b.id)

\* The groups as sets of tab ids.
Membership(p) == {Members(p.win, g) : g \in DOMAIN p.groups}

(* C10: a pass run right after another, on the same tabs and mappings,       *)
(* issues no mutating platform call and leaves the groups and their members  *)
(* as they were.                                                             *)
SecondPassIssuesNothing ==
    passNo >= 2 => reissued = 0 /\ Membership(Plat) = Membership(atPass)

-----------------------------------------------------------------------------
(* updateExistingGroups and the storage.onChanged listener: the options     *)
(* page changes the stored mappings or colors while the window holds a      *)
(* group the script made                                                    *)

\* updateExistingGroups() is called: it runs to its await of Promise.all([
\* getGroupMappings(), getGroupColors(), chrome.tabGroups.query(...)]).
\* n: getGroupColors reads the storage (1) or returns the cached colors (0).
\* maps, colors: what the storage holds.
StartUpdate(id, maps, colors) ==
    [Task(id, "update", FALSE, "read", 0)
       EXCEPT !.maps = maps, !.got = ColorsFrom(cachedGroupColors, colors),
              !.gsnap = groups, !.n = IF cachedGroupColors.set THEN 0 ELSE 1,
              !.seen = Plat]

\* Object.entries(groupMappings).find(...): the group name of the first
\* mapping whose trimmed domain or group name is the group's title, compared
\* in lower case; Null if there is none.
MatchingMapping(title, maps) ==
    LET hit(en) == \/ ToLowerCase(title) = ToLowerCase(StripSuffix(en.key))
                   \/ ToLowerCase(title) = ToLowerCase(en.val)
    IN IF \E i \in DOMAIN maps : hit(maps[i])
       THEN maps[CHOOSE i \in DOMAIN maps :
                    hit(maps[i]) /\ \A j \in 1..(i - 1) : ~hit(maps[j])].val
       ELSE Null

\* existingGroups.map(async (group) => ...): for each group with a matching
\* mapping, in the order of the query, generateColor(groupName) and
\* chrome.tabGroups.update(group.id, { title, color }).  r: the step so far.
RECURSIVE UpdateEach(_, _, _, _)
UpdateEach(t, gids, colors, r) ==
    IF gids = <<>> THEN r
    ELSE LET gid == Head(gids)
             name == MatchingMapping(t.gsnap[gid].title, t.maps)
             gen == generateColor(name, colors, r.colors)
             res == GroupsUpdate(r.plat, gid, TitleOf(name), gen.color)
         IN IF name = Null THEN UpdateEach(t, Tail(gids), colors, r)
            ELSE UpdateEach(t, Tail(gids), colors,
                            [r EXCEPT !.plat = res.plat, !.colors = gen.store,
                                      !.issued = @ + 1,
                                      !.gen = @ \cup {Returned(t.id, name, gen)},
                                      !.task.n = @ + 1])

\* The ids of the groups, in increasing order.
RECURSIVE Ascending(_)
Ascending(ids) ==
    IF ids = {} THEN <<>>
    ELSE LET least == CHOOSE k \in ids : \A j \in ids : k <= j
         IN <<least>> \o Ascending(ids \ {least})

\* Promise.all answered (the callback of getGroupColors has stored what it
\* read): the updates are issued, await Promise.allSettled(updates).
UpdateRead(t) ==
    LET cache == IF t.n = 1 THEN Cached(t.got) ELSE cachedGroupColors
        r == [Go([t EXCEPT !.pc = "updates", !.n = 0], Plat) EXCEPT !.cache = cache]
    IN UpdateEach(t, Ascending(DOMAIN t.gsnap), getGroupColors(cache),
                  [r EXCEPT !.read = {ColorsRead(cache)}])

\* Promise.allSettled answered; each update had its own catch.
UpdatesSettled(t) == End(t, "ok")

UpdateGotAll == \E t \in At("update", "read") : Run(t, UpdateRead(t))
UpdateDone == \E t \in At("update", "updates") : Run(t, UpdatesSettled(t))

\* The colors the options page offers for a group.
OfferedColors == {"blue", "red"}

Dev == <<"D","e","v">>

\* What the storage may hold: the mappings, and a color for the group Dev.
StoredForDev == { <<>> } \cup { <<Entry(Dev, c)>> : c \in OfferedColors }

\* The windows: the first two tabs (of one site) in the group the script made
\* for them, the others (of one site) ungrouped.
StoreStarts(maps, colors) ==
    {WithGroupColored(WindowOf(urls), maps, colors) :
        urls \in {u \in UNION {[1..n -> Sites] : n \in 2..MaxStoreTabs} :
                     u[1] = u[2] /\ \A i \in 3..Len(u) : u[i] = u[Len(u)]}}

\* The script is running and has made the group (cachedGroupColors is set),
\* or it has been loaded again since.
InitStore ==
    /\ QueueInit
    /\ DebounceIdle
    /\ tasks = {}
    /\ colorCache = {}
    /\ events = 0
    /\ NoHistory
    /\ NoDrag
    /\ rev = "current"
    /\ groupMappings \in MappingChoices
    /\ groupColors \in StoredForDev
    /\ cachedGroupColors \in {NoCache, Cached(groupColors)}
    /\ \E p \in StoreStarts(groupMappings, groupColors) :
          win = p.win /\ groups = p.groups /\ nextGid = p.nextGid

\* chrome.storage.onChanged, namespace "sync", after the options page saved
\* other mappings or other colors: debouncedGroupTabsByDomain() and
\* updateExistingGroups(), which is not awaited.
OnStorageChanged ==
    /\ events < MaxChanges
    /\ events' = events + 1
    /\ \E maps \in MappingChoices, colors \in StoredForDev :
          /\ (maps = groupMappings) # (colors = groupColors)
          /\ groupMappings' = maps
          /\ groupColors' = colors
          /\ tasks' = tasks \cup {StartUpdate(events + 1, maps, colors)}
          /\ reads' = reads \cup {MappingsRead, ColorsReadOf(cachedGroupColors, colors)}
    /\ DebouncedCall
    /\ UNCHANGED <<qvars, pvars, cachedGroupColors, colorCache, rev,
                   made, passNo, atPass, reissued, lastDone, returned, checks, lookup, saves, asked, limiter>>

NextStore ==
    \/ OnStorageChanged
    \/ TimePasses \/ TimerRuns
    \/ PassGotTabs \/ PassGotGroups \/ PassGotColors
    \/ PassGrouped \/ PassAttached \/ PassUpdated
    \/ UpdateGotAll \/ UpdateDone

SpecStore == InitStore /\ [][NextStore]_vars

-----------------------------------------------------------------------------
(* checkAndUngroupTab and the onUpdated listener for URL changes            *)

\* normalizedCurrentDomain: currentDomain.replace(/(\.com|...)$/, "").toLowerCase()
Normalized(domain) == ToLowerCase(StripSuffix(domain))

\* groupDomain !== normalizedCurrentDomain && !groupDomain.includes(
\* normalizedCurrentDomain) && !normalizedCurrentDomain.includes(groupDomain)
DomainsDiffer(title, domain) ==
    /\ ToLowerCase(title) # Normalized(domain)
    /\ ~Includes(ToLowerCase(title), Normalized(domain))
    /\ ~Includes(Normalized(domain), ToLowerCase(title))

\* groupDomain !== normalizedCurrentDomain, the test of the older revisions
DomainsDifferExact(title, domain) == ToLowerCase(title) # Normalized(domain)

\* The test of the revision that runs.
Mismatch(title, domain) ==
    IF rev = "current" THEN DomainsDiffer(title, domain) ELSE DomainsDifferExact(title, domain)

PassRunning == \E t \in tasks : t.kind \in {"pass", "passOld", "passBatched", "batch"}

\* The group tab id is in now (NoGroup also when the tab is gone).
GroupOf(w, id) ==
    IF \E i \in DOMAIN w : w[i].id = id
    THEN w[CHOOSE i \in DOMAIN w : w[i].id = id].gid
    ELSE NoGroup

\* The record of a run of checkAndUngroupTab (history).  tab: the tab object
\* the listener was given; fetched: chrome.tabGroups.get answered with a
\* group, of this title; issued: chrome.tabs.ungroup was called; during: a
\* pass was in progress when the routine began; actual: the group the tab was
\* in when the routine began.
Checked(t, tab, fetched, title, issued, during, actual) ==
    [by |-> t.id, grouped |-> tab.gid # NoGroup, domain |-> getDomain(tab.url),
     fetched |-> fetched, title |-> title, issued |-> issued,
     during |-> during, captured |-> tab.gid, actual |-> actual]

\* checkAndUngroupTab(tab) is called: nothing to do for a tab that was in no
\* group; else chrome.tabGroups.get(tab.groupId), which is rejected when
\* there is no such group.  getDomain is not suspended.
\* n, cur: a pass was in progress, the group the tab was in (history).
CheckBegins(t) ==
    LET tab == t.snap[1]
        actual == GroupOf(win, tab.id)
    IN IF tab.gid = NoGroup
       THEN [End(t, "ok") EXCEPT
               !.check = {Checked(t, tab, FALSE, <<>>, FALSE, PassRunning, actual)}]
       ELSE Go([t EXCEPT !.pc = "get", !.ok = tab.gid \in DOMAIN groups, !.gsnap = groups,
                         !.n = IF PassRunning THEN 1 ELSE 0, !.cur = actual], Plat)

\* chrome.tabGroups.get answered: the test, and chrome.tabs.ungroup(tab.id) if
\* the domains differ.  A rejection of get, and the TypeError the older
\* revisions throw on a null domain, are taken by the catch.
CheckGot(t) ==
    LET tab == t.snap[1]
        domain == getDomain(tab.url)
        title == t.gsnap[tab.gid].title
        res == TabsUngroup(Plat, {tab.id})
    IN IF ~t.ok THEN End(t, "ok")
       ELSE IF domain = Null
            THEN [End(t, "ok") EXCEPT
                    !.check = {Checked(t, tab, TRUE, title, FALSE, t.n = 1, t.cur)}]
       ELSE IF Mismatch(title, domain)
            THEN [Go([t EXCEPT !.pc = "ungroup", !.ok = res.ok], res.plat) EXCEPT
                    !.issued = 1,
                    !.check = {Checked(t, tab, TRUE, title, TRUE, t.n = 1, t.cur)}]
            ELSE [End(t, "ok") EXCEPT
                    !.check = {Checked(t, tab, TRUE, title, FALSE, t.n = 1, t.cur)}]

\* chrome.tabs.ungroup answered; a rejection is logged.
CheckUngrouped(t) == End(t, "ok")

\* The queued operation of the current revision: its 50 ms timer ran out.
CheckDelayed == \E t \in At("check", "delay") : Run(t, CheckBegins(t))
CheckGotGroup == \E t \in At("check", "get") : Run(t, CheckGot(t))
CheckDone == \E t \in At("check", "ungroup") : Run(t, CheckUngrouped(t))

\* The pages a tab may go to: the sites, a site whose name contains the name
\* of another, and a page whose URL has no hostname.
Pages == Sites \cup { Url("ok", <<"a","b",".","c","o","m">>), Url("bad", <<>>) }

\* A tab goes to another page; chrome.tabs.onUpdated with changeInfo.url and
\* the tab as it is now.  The current revision enqueues the operation that
\* waits 50 ms and calls checkAndUngroupTab(tab); the older revisions call
\* checkAndUngroupTab(tab) at once, and do not await it.
\* pages: where the tab may go; same: only to a page of the domain it is on.
UrlChangesWithin(pages, same) ==
    /\ events' = events + 1
    /\ \E i \in DOMAIN win, url \in pages :
          LET tab == [win[i] EXCEPT !.url = url]
              w == [win EXCEPT ![i] = tab]
              t == [Task(nextId, "check", FALSE, "get", 0) EXCEPT !.snap = <<tab>>]
              r == CheckBegins(t)
          IN /\ url # win[i].url
             /\ same => getDomain(url) = getDomain(win[i].url)
             /\ win' = w
             /\ IF rev = "current"
                THEN /\ Enqueue("check", [batch |-> <<tab>>, maps |-> <<>>], tasks)
                     /\ UNCHANGED checks
                ELSE /\ tasks' = IF r.done THEN tasks ELSE tasks \cup {[r.task EXCEPT !.seen = [Plat EXCEPT !.win = w]]}
                     /\ checks' = checks \cup r.check
                     /\ nextId' = nextId + 1
                     /\ UNCHANGED <<queue, processing, started, settled>>
    /\ UNCHANGED <<dvars, groups, nextGid, busy, drags, svars, rev,
                   made, passNo, atPass, reissued, lastDone, returned, reads, lookup, saves, asked, limiter>>

UrlChanges == UrlChangesWithin(Pages, FALSE)

OnUrlChangedAlone == events < MaxNavs /\ UrlChanges

\* The windows: the first two tabs (of one site) in the group the script made
\* for them, the others ungrouped.
NavStarts(maps) ==
    {WithGroup(WindowOf(urls), maps) :
        urls \in {u \in UNION {[1..n -> Sites] : n \in 2..MaxNavTabs} : u[1] = u[2]}}

InitRule ==
    /\ ScriptLoaded
    /\ NoDrag
    /\ groupMappings \in MappingChoices
    /\ groupColors = <<>>
    /\ rev \in {"current", "older"}
    /\ \E p \in NavStarts(groupMappings) :
          win = p.win /\ groups = p.groups /\ nextGid = p.nextGid

NextRule == OnUrlChangedAlone \/ CheckDelayed \/ CheckGotGroup \/ CheckDone

SpecRule == InitRule /\ [][NextRule]_vars

-----------------------------------------------------------------------------
(* A grouped tab goes to another page of the site it is on                   *)

LongSite == <<"s","u","p","e","r","c","a","l","i","f","r","a","g","i","l","i","s","t","i","c",".","c","o","m">>

\* Two sites, each with and without www.; the name of the second is longer
\* than TitleLimit, so the title of its group is abbreviated.
SameSitePages ==
    { Url("ok", <<"w","w","w",".","a",".","c","o","m">>), Url("ok", <<"a",".","c","o","m">>),
      Url("ok", <<"w","w","w",".">> \o LongSite), Url("ok", LongSite) }

SameSiteUrlChanges == UrlChangesWithin(SameSitePages, TRUE)

OnSameSiteUrlChanged == events < MaxNavs /\ SameSiteUrlChanges

\* The windows: the first two tabs (of one site) in the group the script made
\* for them, the others ungrouped.
SameSiteStarts(maps) ==
    {WithGroup(WindowOf(urls), maps) :
        urls \in {u \in UNION {[1..n -> SameSitePages] : n \in 2..MaxNavTabs} :
                     getDomain(u[1]) = getDomain(u[2])}}

InitSameSite ==
    /\ ScriptLoaded
    /\ NoDrag
    /\ groupMappings \in MappingChoices
    /\ groupColors = <<>>
    /\ rev = "current"
    /\ \E p \in SameSiteStarts(groupMappings) :
          win = p.win /\ groups = p.groups /\ nextGid = p.nextGid

NextSameSite == OnSameSiteUrlChanged \/ CheckDelayed \/ CheckGotGroup \/ CheckDone

SpecSameSite == InitSameSite /\ [][NextSameSite]_vars

-----------------------------------------------------------------------------
(* URL changes while passes run: the current revision                        *)

OnUrlChanged == events < MaxNavEvents /\ UrlChanges

\* chrome.tabs.onUpdated with status "complete": debouncedGroupTabsByDomain()
OnLoaded ==
    /\ events < MaxNavEvents
    /\ events' = events + 1
    /\ DebouncedCall
    /\ UNCHANGED <<qvars, tasks, pvars, svars, rev, hvars>>

\* The windows: as NavStarts, or all tabs ungrouped.
CheckStarts(maps) ==
    NavStarts(maps) \cup
    {[win |-> WindowOf(urls), groups |-> <<>>, nextGid |-> 1] :
        urls \in UNION {[1..n -> Sites] : n \in 2..MaxNavTabs}}

InitCheck ==
    /\ ScriptLoaded
    /\ NoDrag
    /\ groupMappings = <<>>
    /\ groupColors = <<>>
    /\ rev = "current"
    /\ \E p \in CheckStarts(groupMappings) :
          win = p.win /\ groups = p.groups /\ nextGid = p.nextGid

NextCheck ==
    \/ OnUrlChanged \/ OnLoaded
    \/ TimePasses \/ TimerRuns
    \/ PassGotTabs \/ PassGotGroups \/ PassGotColors
    \/ PassGrouped \/ PassAttached \/ PassUpdated
    \/ CheckDelayed \/ CheckGotGroup \/ CheckDone

SpecCheck == InitCheck /\ [][NextCheck]_vars

-----------------------------------------------------------------------------
(* getDomain alone: one call, for any URL                                    *)

\* The labels hostnames are written from.
Labels == { <<"w","w","w">>, <<"s","u","b">>, <<"e","x","a","m","p","l","e">>,
            <<"c","o">>, <<"u","k">> }

\* The hostnames: one to MaxLabels labels, and the same with the dot of the
\* root after them (written as a last, empty label).
LabelLists ==
    LET plain == UNION {[1..n -> Labels] : n \in 1..MaxLabels}
    IN plain \cup {Append(l, <<>>) : l \in plain}

\* The call getDomain(url) with the URL of this hostname, not yet returned.
Asked(url, labels) ==
    [url |-> url, labels |-> labels, returned |-> FALSE, threw |-> FALSE, domain |-> <<>>]

\* The calls: a URL with a hostname, no URL, and a string that is no URL.
Lookups ==
    {Asked(Url("ok", JoinDots(l)), l) : l \in LabelLists}
    \cup {Asked(Url("none", <<>>), <<>>), Asked(Url("bad", <<>>), <<>>)}

InitDomain ==
    /\ QueueInit
    /\ DebounceIdle
    /\ win = <<>>
    /\ groups = <<>>
    /\ nextGid = 1
    /\ NoDrag
    /\ groupMappings = <<>>
    /\ groupColors = <<>>
    /\ cachedGroupColors = NoCache
    /\ colorCache = {}
    /\ rev = "current"
    /\ events = 0
    /\ NoRunHistory
    /\ lookup \in Lookups

\* getDomain(url) returns (the routine has no await that suspends it).
GetDomainReturns ==
    /\ ~lookup.returned
    /\ lookup' = [lookup EXCEPT !.returned = TRUE,
                                !.threw = GetDomainSettles(lookup.url).threw,
                                !.domain = GetDomainSettles(lookup.url).domain]
    /\ UNCHANGED <<qvars, tasks, dvars, pvars, svars, rev, events,
                   made, passNo, atPass, reissued, lastDone, returned, reads, checks, saves, asked, limiter>>

NextDomain == GetDomainReturns

SpecDomain == InitDomain /\ [][NextDomain]_vars

-----------------------------------------------------------------------------
(* Passes of the current revision over tabs without a domain                 *)

\* The urls of the tabs: the sites, a string new URL() rejects, and none.
SkipUrls == Sites \cup {Url("bad", <<>>), NoUrl}

\* The windows: all tabs ungrouped, or the first two (of one site) in a group.
SkipStarts(maps) ==
    LET all == UNION {[1..n -> SkipUrls] : n \in 1..MaxSkipTabs}
    IN {[win |-> WindowOf(urls), groups |-> <<>>, nextGid |-> 1] : urls \in all}
       \cup {WithGroup(WindowOf(urls), maps) :
                urls \in {u \in all : Len(u) >= 2 /\ u[1] = u[2] /\ u[1] \in Sites}}

InitSkip ==
    /\ ScriptLoaded
    /\ NoDrag
    /\ groupMappings \in MappingChoices
    /\ groupColors = <<>>
    /\ rev = "current"
    /\ \E p \in SkipStarts(groupMappings) :
          win = p.win /\ groups = p.groups /\ nextGid = p.nextGid

NextSkip ==
    \/ RunPass
    \/ PassGotTabs \/ PassGotGroups \/ PassGotColors
    \/ PassGrouped \/ PassAttached \/ PassUpdated

SpecSkip == InitSkip /\ [][NextSkip]_vars

-----------------------------------------------------------------------------
(* The example: a mapping of github.com to Dev, two tabs of github.com and   *)
(* one of gitlab.com, by the current revision and by the one with the tail  *)
(* pass                                                                     *)

GithubCom == <<"g","i","t","h","u","b",".","c","o","m">>
GitlabCom == <<"g","i","t","l","a","b",".","c","o","m">>

\* The pages of github.com a tab may show.
GithubPages == {Url("ok", GithubCom), Url("ok", <<"w","w","w",".">> \o GithubCom)}

\* The three tabs, ungrouped, in any order in the strip.
DemoWindows ==
    {WindowOf(urls) :
        urls \in {u \in [1..3 -> GithubPages \cup {Url("ok", GitlabCom)}] :
                    Cardinality({i \in 1..3 : u[i] \in GithubPages}) = 2}}

InitDemo ==
    /\ ScriptLoaded
    /\ NoDrag
    /\ groupMappings = <<Entry(GithubCom, Dev)>>
    /\ groupColors = <<>>
    /\ rev \in {"current", "older"}
    /\ win \in DemoWindows
    /\ groups = <<>>
    /\ nextGid = 1

\* groupTabsByDomain() is called when the pass before it has ended.
RunDemoPass == passNo < MaxDemoPasses /\ RunPass

\* No group exists that a pass could attach a tab to: the attach steps of
\* the passes are not among the steps.
NextDemo ==
    \/ RunDemoPass
    \/ PassGotTabs \/ PassGotGroups \/ PassGotColors \/ PassGrouped \/ PassUpdated
    \/ OldPassGotTabs \/ OldPassGotMaps \/ OldPassGotGroups
    \/ OldPassGotColors \/ OldPassGrouped \/ OldPassUpdated
    \/ MoverGotTabsStep \/ MoverMoved

SpecDemo == InitDemo /\ [][NextDemo]_vars

-----------------------------------------------------------------------------
(* The cleanup after closed tabs, with its scheduling: the timer of a queued *)
(* operation runs out and every platform call settles                       *)

\* The user closes a tab; chrome.tabs.onRemoved.
OnTabClosed == events < MaxCloses /\ OnRemoved

InitLive ==
    /\ ScriptLoaded
    /\ NoDrag
    /\ groupMappings \in MappingChoices
    /\ groupColors = <<>>
    /\ rev = "current"
    /\ \E p \in NavStarts(groupMappings) :
          win = p.win /\ groups = p.groups /\ nextGid = p.nextGid

NextLive ==
    \/ OnTabClosed
    \/ CleanupDelayed \/ CleanupReadDone \/ CleanupUngrouped
    \/ DragStarts \/ DragEnds

\* setTimeout calls back, the platform settles each call, and a drag ends.
LiveFairness ==
    /\ WF_vars(CleanupDelayed)
    /\ WF_vars(CleanupReadDone)
    /\ WF_vars(CleanupUngrouped)
    /\ WF_vars(DragEnds)

SpecLive == InitLive /\ [][NextLive]_vars /\ LiveFairness

-----------------------------------------------------------------------------
(* The routine that moves the ungrouped tabs, alone: moveSingleTabs, and     *)
(* moveSingleTabsToStart of the oldest revision                             *)

\* A strip of n tabs of one site: the tabs from..to in group 1 (none when
\* from > to), the others ungrouped, the first k pinned.
StripOf(n, from, to, k) ==
    [i \in 1..n |->
        Tab(i, Url("ok", <<"b",".","i","o">>),
            IF from <= i /\ i <= to THEN 1 ELSE NoGroup, i <= k)]

\* The windows: pinned tabs first and in no group, at most one group.
MoveStarts ==
    {[win |-> StripOf(c[1], c[2], c[3], c[4]),
      groups |-> IF c[2] <= c[3] THEN <<[title |-> <<"b">>, color |-> HashColor(<<"b">>)]>>
                 ELSE <<>>,
      nextGid |-> IF c[2] <= c[3] THEN 2 ELSE 1] :
        c \in {d \in (1..MaxMoveTabs) \X (1..MaxMoveTabs) \X (0..MaxMoveTabs) \X (0..MaxPinned) :
                  /\ d[3] <= d[1]
                  /\ d[2] <= d[3] + 1
                  /\ d[4] < d[2]
                  /\ d[4] <= d[1]}}

InitMove ==
    /\ ScriptLoaded
    /\ NoDrag
    /\ groupMappings = <<>>
    /\ groupColors = <<>>
    /\ rev \in {"older", "oldest"}
    /\ \E p \in MoveStarts : win = p.win /\ groups = p.groups /\ nextGid = p.nextGid

\* groupTabsByDomain calls moveSingleTabs() (moveSingleTabsToStart()), the
\* call before it having returned.
MoverCalled ==
    /\ tasks = {}
    /\ events < MaxMoverCalls
    /\ events' = events + 1
    /\ tasks' = {[Task(events + 1, "mover", FALSE, "tabs", 0) EXCEPT !.snap = win, !.seen = Plat]}
    /\ UNCHANGED <<qvars, dvars, pvars, svars, rev, hvars>>

NextMove ==
    \/ MoverCalled
    \/ MoverGotTabsStep \/ MoverGotGroupsStep \/ MoverMoved
    \/ DragStarts \/ DragEnds

SpecMove == InitMove /\ [][NextMove]_vars

-----------------------------------------------------------------------------
(* The writes of the storage: StorageManager.set, and the click handler of   *)
(* the popup's "add mapping" button                                         *)

\* obj[key] = val
ObjSet(obj, key, val) ==
    IF Has(obj, key)
    THEN [i \in DOMAIN obj |-> IF obj[i].key = key THEN Entry(key, val) ELSE obj[i]]
    ELSE Append(obj, Entry(key, val))

\* \w of a regular expression, \s for the space
IsWordChar(c) == IsAlnum(c) \/ c = "_"
\* domain.replace(/[^\w\s.-]/g, "").trim()
CleanDomain(domain) ==
    Trim(SelectSeq(domain, LAMBDA c : IsWordChar(c) \/ c \in {" ", ".", "-"}))
\* groupName.replace(/[^\w\s:-]/g, "").trim()
CleanGroupName(groupName) ==
    Trim(SelectSeq(groupName, LAMBDA c : IsWordChar(c) \/ c \in {" ", ":", "-"}))

\* What the user may have typed in the fields of the popup.
TypedDomains == { <<"a",".","i","o">>, <<" ","a","!",".","i","o">>, <<" ">> }
TypedNames == { Dev, <<"D","e","v","?">>, <<>> }
PickedColors == {"", "blue"}

\* What a caller may hand to StorageManager.set
SetArgs ==
    {[key |-> "groupMappings", value |-> m] : m \in MappingChoices}
        \cup {[key |-> "groupColors", value |-> c] : c \in StoredForDev}

\* StorageManager.set: if (chrome.runtime.lastError) reject(chrome.runtime.lastError)
\* else resolve()
SetCallback(lastError) == IF lastError THEN "rejected" ELSE "resolved"

\* The callback the popup hands to chrome.storage.sync.set: refreshMappings()
\* and the fields cleared; it does not read chrome.runtime.lastError.
PopupSetCallback(lastError) == "refreshed"

\* A write of the storage that has not been answered.
Save(by, pc, keys, maps, colors, typed) ==
    [by |-> by, pc |-> pc, keys |-> keys, maps |-> maps, colors |-> colors,
     typed |-> typed, error |-> FALSE, outcome |-> "pending"]

NothingTyped == [domain |-> <<>>, groupName |-> <<>>, color |-> ""]

InitWrite ==
    /\ ScriptLoaded
    /\ win = <<>> /\ groups = <<>> /\ nextGid = 1
    /\ NoDrag
    /\ rev \in {"current", "oldest"}
    /\ groupMappings \in MappingChoices
    /\ groupColors = <<>>

\* StorageManager.set(key, value): chrome.storage.sync.set({ [key]: value }, ...)
SetCalled ==
    /\ rev = "current"
    /\ Len(saves) < MaxSaves
    /\ \E a \in SetArgs :
          saves' = Append(saves,
                      Save("StorageManager", "set", {a.key},
                           IF a.key = "groupMappings" THEN a.value ELSE <<>>,
                           IF a.key = "groupColors" THEN a.value ELSE <<>>,
                           NothingTyped))
    /\ UNCHANGED <<qvars, tasks, dvars, pvars, svars, rev, events,
                   made, passNo, atPass, reissued, lastDone, returned, reads, checks, lookup, asked, limiter>>

\* The store answers the write i: it has written the keys, or it reports an
\* error (chrome.runtime.lastError) and has written nothing; the callback runs.
StoreAnswers(i) ==
    /\ saves[i].pc = "set"
    /\ \E lastError \in BOOLEAN :
          /\ saves' = [saves EXCEPT ![i].pc = "done", ![i].error = lastError,
                                    ![i].outcome =
                                        IF saves[i].by = "StorageManager"
                                        THEN SetCallback(lastError)
                                        ELSE PopupSetCallback(lastError)]
          /\ groupMappings' = IF ~lastError /\ "groupMappings" \in saves[i].keys
                              THEN saves[i].maps ELSE groupMappings
          /\ groupColors' = IF ~lastError /\ "groupColors" \in saves[i].keys
                            THEN saves[i].colors ELSE groupColors
    /\ UNCHANGED <<qvars, tasks, dvars, pvars, cachedGroupColors, colorCache, rev, events,
                   made, passNo, atPass, reissued, lastDone, returned, reads, checks, lookup, asked, limiter>>

SetSettles ==
    \E i \in DOMAIN saves : saves[i].by = "StorageManager" /\ StoreAnswers(i)

\* The click on "add mapping": if (domain && groupName) chrome.storage.sync.get(...)
\* with the trimmed values of the fields, the color "grey" when none is picked.
AddMappingClicked ==
    /\ rev = "oldest"
    /\ Len(saves) < MaxSaves
    /\ \E d \in TypedDomains, g \in TypedNames, c \in PickedColors :
          /\ Trim(d) # <<>> /\ Trim(g) # <<>>
          /\ saves' = Append(saves,
                         Save("popup", "get", {"groupMappings", "groupColors"}, <<>>, <<>>,
                              [domain |-> Trim(d), groupName |-> Trim(g),
                               color |-> IF c = "" THEN "grey" ELSE c]))
    /\ UNCHANGED <<qvars, tasks, dvars, pvars, svars, rev, events,
                   made, passNo, atPass, reissued, lastDone, returned, reads, checks, lookup, asked, limiter>>

\* chrome.storage.sync.get answered: mappings[cleanDomain] = cleanGroupName,
\* colors[cleanGroupName] = color, chrome.storage.sync.set({ groupMappings, groupColors }, ...)
PopupGotStored ==
    /\ \E i \in DOMAIN saves :
          /\ saves[i].by = "popup" /\ saves[i].pc = "get"
          /\ saves' = [saves EXCEPT
                 ![i].pc = "set",
                 ![i].maps = ObjSet(groupMappings, CleanDomain(saves[i].typed.domain),
                                    CleanGroupName(saves[i].typed.groupName)),
                 ![i].colors = ObjSet(groupColors, CleanGroupName(saves[i].typed.groupName),
                                      saves[i].typed.color)]
    /\ UNCHANGED <<qvars, tasks, dvars, pvars, svars, rev, events,
                   made, passNo, atPass, reissued, lastDone, returned, reads, checks, lookup, asked, limiter>>

PopupSaved ==
    \E i \in DOMAIN saves : saves[i].by = "popup" /\ StoreAnswers(i)

NextWrite ==
    \/ SetCalled \/ SetSettles
    \/ AddMappingClicked \/ PopupGotStored \/ PopupSaved

SpecWrite == InitWrite /\ [][NextWrite]_vars

-----------------------------------------------------------------------------
(* The synchronous functions on their own: the title of a group               *)

\* The call fn(name) with the mappings maps, not yet returned.
CallOf(fn, name, maps) == [NoCall EXCEPT !.fn = fn, !.name = name, !.maps = maps]

\* Group names: a first word, a separator, a second word, with or without a
\* space in front; names of 15 characters and less, and longer ones.
FirstWords == { <<"M","y">>, <<"F","a","v","o","r","i","t","e">>, <<"s","u","p","e","r","c","a","l","i","f","r","a","g","i","l","i","s","t","i","c">>, <<"a","v","e","r","y","l","o","n","g","w","o","r","d","1","5">> }
WordSeparators == { <<>>, <<" ">>, <<"-">>, <<".", " ">>, <<" ","F","a","v","o","r","i","t","e"," ">> }
SecondWords == { <<>>, <<"S","i","t","e">>, <<"9","x">>, <<"s","u","p","e","r","c","a","l","i","f","r","a","g","i","l">> }
GroupNames ==
    { lead \o a \o sep \o b :
        lead \in { <<>>, <<" ">> }, a \in FirstWords, sep \in WordSeparators, b \in SecondWords }

TitleCalls == { CallOf("title", name, <<>>) : name \in GroupNames }

\* Domains as getDomain returns them, and what the storage may hold for them
\* (the popup stores an empty group name when the typed name has no
\* character it keeps).
AskedDomains ==
    { <<"a",".","c","o","m">>, <<"a",".","s","e">>, <<"a",".","n","e","t">>, <<"a",".","o","r","g">>, <<"a",".","i","o">>, <<"a",".","d","e","v">>, <<"a",".","c","o">>, <<"c","o","m",".","i","o">>, <<"l","o","c","a","l","h","o","s","t">>, <<"c","o","n","s","t","r","u","c","t","o","r">> }
AskedMappings ==
    { <<>> }
      \cup { <<Entry(d, g)>> : d \in AskedDomains, g \in { Dev, <<>> } }
      \cup { <<Entry(<<"a",".","c","o","m">>, Dev), Entry(d, <<"X">>)>> : d \in AskedDomains \ { <<"a",".","c","o","m">> } }

GroupNameCalls == { CallOf("groupName", d, m) : d \in AskedDomains, m \in AskedMappings }

\* Group names (constructor is the name of the tabs of constructor.io), the
\* colors getGroupColors may return for them and what colorCache may hold:
\* nothing, or the color memoized for one name, expired or not.
AskedNames == { <<"a">>, Dev, <<"c","o","n","s","t","r","u","c","t","o","r">> }
AskedColors ==
    { <<>> } \cup { <<Entry(n, c)>> : n \in AskedNames, c \in {"red", "blue", ""} }
AskedStores ==
    { {} } \cup { {[CacheEntry(n, HashColor(n)) EXCEPT !.expired = x]} :
                        n \in AskedNames, x \in BOOLEAN }

ColorCalls ==
    { [CallOf("color", n, <<>>) EXCEPT !.colors = c, !.store = st] :
         n \in AskedNames, c \in AskedColors, st \in AskedStores }

\* Names whose hash is -2^31, 2^31 - 1 and -1
MinHashName == <<"x","f","j","f","x","t","f">>
MaxHashName == <<"x","f","j","f","x","t","e">>
MinusOneName == <<"z","s","j","p","x","a","g">>
HashedNames ==
    {name \in GroupNames : Len(name) <= MaxHashedLen}
        \cup AskedNames \cup {<<>>, MinHashName, MaxHashName, MinusOneName}

HashCalls == { CallOf("hash", name, <<>>) : name \in HashedNames }

\* generateColor for the names above, nothing stored and nothing cached
HashedColorCalls ==
    { CallOf("color", name, <<>>) : name \in {MinHashName, MaxHashName, MinusOneName} }

InitAsk ==
    /\ QueueInit
    /\ DebounceIdle
    /\ win = <<>> /\ groups = <<>> /\ nextGid = 1
    /\ NoDrag
    /\ groupMappings = <<>>
    /\ groupColors = <<>>
    /\ cachedGroupColors = NoCache
    /\ rev = "current"
    /\ events = 0
    /\ made = <<>> /\ passNo = 0 /\ atPass = NotSeen /\ reissued = 0
    /\ lastDone = NoneDone /\ returned = {} /\ reads = {} /\ checks = {}
    /\ saves = <<>>
    /\ lookup = NotAsked
    /\ limiter = LimiterLoaded
    /\ asked \in TitleCalls \cup GroupNameCalls \cup ColorCalls \cup HashCalls \cup HashedColorCalls
    /\ colorCache = asked.store

\* The call asked returns result.
Answers(result) ==
    /\ ~asked.returned
    /\ asked' = [asked EXCEPT !.returned = TRUE, !.result = result]
    /\ UNCHANGED <<qvars, tasks, dvars, pvars, svars, rev, events,
                   made, passNo, atPass, reissued, lastDone, returned, reads, checks,
                   lookup, saves, limiter>>

\* const title = groupName.length > 15 ? abbreviate(groupName) : groupName
TitleReturns == asked.fn = "title" /\ Answers(TitleOf(asked.name))

\* const groupName = groupMappings[domain] || domain.replace(...)
GroupNameReturns ==
    asked.fn = "groupName" /\ Answers(GroupNameOf(asked.name, asked.maps))

\* generateColor(groupName) goes on after getGroupColors() has returned
\* asked.colors: the color it returns, and colorCache after the call.
ColorReturns ==
    /\ asked.fn = "color"
    /\ ~asked.returned
    /\ LET gen == generateColor(asked.name, asked.colors, colorCache)
       IN /\ asked' = [asked EXCEPT !.returned = TRUE, !.result = <<gen.color>>]
          /\ colorCache' = gen.store
    /\ UNCHANGED <<qvars, tasks, dvars, pvars, groupMappings, groupColors, cachedGroupColors,
                   rev, events, made, passNo, atPass, reissued, lastDone, returned, reads,
                   checks, lookup, saves, limiter>>

\* hashCode(str) returns; trace: hash after each character (history)
HashReturns ==
    /\ asked.fn = "hash"
    /\ ~asked.returned
    /\ asked' = [asked EXCEPT !.returned = TRUE, !.result = <<hashCode(asked.name)>>,
                              !.trace = HashTrace(asked.name)]
    /\ UNCHANGED <<qvars, tasks, dvars, pvars, svars, rev, events,
                   made, passNo, atPass, reissued, lastDone, returned, reads, checks,
                   lookup, saves, limiter>>

NextAsk == TitleReturns \/ GroupNameReturns \/ ColorReturns \/ HashReturns

SpecAsk == InitAsk /\ [][NextAsk]_vars

-----------------------------------------------------------------------------
(* The batched groupTabsByDomain called while an earlier call is running     *)

InitBatch ==
    /\ ScriptLoaded
    /\ groupMappings = <<>>
    /\ groupColors = <<>>
    /\ rev = "batched"
    /\ FreshWindow(UNION {[1..n -> Sites] : n \in 1..MaxBatchTabs})

\* The debounce timer runs groupTabsByDomain, whatever the calls before it
\* are doing.
BatchedPassStarts ==
    /\ passNo < MaxBatchPasses
    /\ passNo' = passNo + 1
    /\ atPass' = Plat
    /\ tasks' = tasks \cup {StartPass(passNo + 1, 0)}
    /\ UNCHANGED <<qvars, dvars, pvars, svars, rev, events, made, reissued, lastDone,
                   returned, reads, checks, lookup, saves, asked, limiter>>

NextBatch ==
    \/ BatchedPassStarts
    \/ BatchedPassGotTabs \/ BatchedGotGroups \/ BatchedResumes
    \/ BatchGotDomains \/ BatchGotColors \/ BatchGrouped \/ BatchUpdated

SpecBatch == InitBatch /\ [][NextBatch]_vars

-----------------------------------------------------------------------------
(* rateLimiter.execute, called by the handlers of the batched revision       *)

\* this.lastCall = Date.now(); return fn(): the wrapped function of call id starts
FnStarts(l, id) ==
    [l EXCEPT !.lastCall = l.now, !.starts = Append(@, [id |-> id, at |-> l.now])]

\* execute(fn): const now = Date.now(); if (now - this.lastCall < this.minInterval)
\* await new Promise(resolve => setTimeout(resolve, minInterval - (now - lastCall)))
Execute(l) ==
    LET id == l.calls + 1
        called == [l EXCEPT !.calls = id, !.overlapped = @ \/ l.waiting # {}]
    IN IF l.now - l.lastCall < minInterval
       THEN [called EXCEPT !.waiting = @ \cup {[id |-> id, left |-> minInterval - (l.now - l.lastCall)]}]
       ELSE FnStarts(called, id)

LimiterStep(l) ==
    /\ limiter' = l
    /\ UNCHANGED <<qvars, tasks, dvars, pvars, svars, rev, events,
                   made, passNo, atPass, reissued, lastDone, returned, reads, checks,
                   lookup, saves, asked>>

InitRate ==
    /\ QueueInit
    /\ DebounceIdle
    /\ win = <<>> /\ groups = <<>> /\ nextGid = 1
    /\ NoDrag
    /\ groupMappings = <<>>
    /\ groupColors = <<>>
    /\ cachedGroupColors = NoCache
    /\ colorCache = {}
    /\ rev = "batched"
    /\ events = 0
    /\ NoHistory

\* A handler calls rateLimiter.execute(fn).
ExecuteCalled ==
    /\ limiter.calls < MaxRateCalls
    /\ LimiterStep(Execute(limiter))

\* The timer of a waiting call has run: the call goes on after its await.
WaitEnds ==
    \E w \in limiter.waiting :
        /\ w.left = 0
        /\ LimiterStep(FnStarts([limiter EXCEPT !.waiting = @ \ {w}], w.id))

\* 100 ms pass.  A timer that is due runs before time moves on.
ClockTicks ==
    /\ limiter.now < MaxClock
    /\ \A w \in limiter.waiting : w.left > 0
    /\ LimiterStep([limiter EXCEPT !.now = @ + 1,
                                   !.waiting = {[w EXCEPT !.left = @ - 1] : w \in @}])

NextRate == ExecuteCalled \/ WaitEnds \/ ClockTicks

SpecRate == InitRate /\ [][NextRate]_vars

-----------------------------------------------------------------------------
(* generateColor alone: calls for a few group names while time passes and   *)
(* the stored colors stay as they are                                       *)

ColorNames == { <<"a">>, <<"b">>, <<"D","e","v">> }

\* What the options page may have stored as groupColors, an empty color too.
StoredColors == ColorChoices \cup { <<Entry(<<"b">>, "")>> }

InitColor ==
    /\ ScriptLoaded
    /\ win = <<>>
    /\ groups = <<>>
    /\ nextGid = 1
    /\ NoDrag
    /\ groupMappings = <<>>
    /\ groupColors \in StoredColors
    /\ rev = "current"

\* A routine calls generateColor(groupName): getGroupColors returns the cached
\* colors at once, or reads the storage and the call is suspended.
CallGenerateColor ==
    \E name \in ColorNames :
        /\ events < MaxCalls
        /\ events' = events + 1
        /\ IF cachedGroupColors.set
           THEN LET gen == generateColor(name, getGroupColors(cachedGroupColors), colorCache)
                IN /\ colorCache' = gen.store
                   /\ returned' = returned \cup {Returned(events + 1, name, gen)}
                   /\ UNCHANGED tasks
           ELSE /\ tasks' = tasks \cup
                      {[Task(events + 1, "color", FALSE, "colors", 0)
                          EXCEPT !.got = getGroupColors(cachedGroupColors),
                                 !.plan = <<[name |-> name, ids |-> <<>>]>>]}
                /\ UNCHANGED <<colorCache, returned>>
        /\ reads' = reads \cup {ColorsRead(cachedGroupColors)}
        /\ UNCHANGED <<qvars, dvars, pvars, groupMappings, groupColors, cachedGroupColors,
                       rev, made, passNo, atPass, reissued, lastDone, checks, lookup, saves, asked, limiter>>

\* The storage answered getGroupColors: cachedGroupColors is set and
\* generateColor goes on to its end.
ColorGotColors ==
    \E t \in At("color", "colors") :
        LET name == Head(t.plan).name
            gen == generateColor(name, t.got, colorCache)
        IN Run(t, [End(t, "ok") EXCEPT !.cache = Cached(t.got), !.colors = gen.store,
                                       !.gen = {Returned(t.id, name, gen)}])

\* More than the ttl of colorCache (60000 ms) has passed since an entry was set.
EntryExpires ==
    /\ \E en \in colorCache :
          /\ ~en.expired
          /\ colorCache' = (colorCache \ {en}) \cup {[en EXCEPT !.expired = TRUE]}
    /\ UNCHANGED <<qvars, tasks, dvars, pvars, groupMappings, groupColors, cachedGroupColors,
                   rev, events, hvars>>

NextColor == CallGenerateColor \/ ColorGotColors \/ EntryExpires

SpecColor == InitColor /\ [][NextColor]_vars

-----------------------------------------------------------------------------
(* C11 *)

\* Pass t has got past its early exit (if (tabs.length <= 1) return, which
\* the current revision does not have).
PastEarlyExit(t) == t.kind = "pass" \/ t.pc # "tabs"

\* The passes that end in this step.
EndingPasses == {t \in tasks : t.kind \in PassKinds
                                /\ \A u \in tasks' : ~(u.id = t.id /\ u.kind = t.kind)}

\* C11: whenever a reconciliation pass that got past the early exit ends,
\* normally or through its catch after a rejected call, the step that ends it
\* starts moveSingleTabs, the routine that relocates the ungrouped tabs.
TailStepAlwaysRuns ==
    [][\A t \in EndingPasses :
          PastEarlyExit(t) => \E u \in tasks' : u.kind = "mover" /\ u.id = t.id]_vars

-----------------------------------------------------------------------------
(* C12 *)

\* C12: when a pass has ended, no two tabs with the same target group name
\* are in two different groups, that is, the window holds no two groups for
\* one group name: a pass that finds a group for the name of its tabs puts
\* the tabs into that group.
NoDuplicateGroups ==
    PassEnded =>
        \A i, j \in DOMAIN win :
            (/\ win[i].gid # NoGroup /\ win[j].gid # NoGroup
             /\ TargetOf(win[i], groupMappings) # Null
             /\ TargetOf(win[i], groupMappings) = TargetOf(win[j], groupMappings))
            => win[i].gid = win[j].gid

-----------------------------------------------------------------------------
(* C13 *)

\* C13: every chrome.tabs.group call of a pass names only tabs that were
\* neither pinned nor in a group when the pass read the tabs.
PassGroupsOnlyEligible ==
    \A i \in DOMAIN made : ~made[i].pinned /\ ~made[i].grouped

-----------------------------------------------------------------------------
(* C14 *)

\* The routine that issued the recorded call has ended.
CallerEnded(c) == \A t \in tasks : ~(t.id = c.by /\ t.kind = c.kind)

\* C14: once the routine that created a group has ended, the group (if it is
\* still in the window) has the title made of its group name and the color
\* generateColor gives that name, not the empty title and the grey the
\* browser gives a new group.
CreatedGroupsDressed ==
    \A i \in DOMAIN made :
        (made[i].new /\ CallerEnded(made[i]) /\ made[i].gid \in DOMAIN groups)
        => groups[made[i].gid] = [title |-> TitleOf(made[i].name),
                                   color |-> ColorOf(made[i].name, cachedGroupColors.colors)]

-----------------------------------------------------------------------------
(* C20 *)

\* Routine t awaits a group or update call of its loop over the group names,
\* the call was rejected, and group names remain after the one it is at.
RejectedWithNamesLeft(t) ==
    /\ t.kind \in PassKinds \cup {"batch"}
    /\ t.pc \in {"group", "attach", "update"}
    /\ ~t.ok
    /\ Len(t.plan) > 1

\* C20: a pass whose group or update call for one group name was rejected
\* goes on with the group names that remain: the step that takes the
\* rejection does not end the pass.
PassGoesOnAfterRejection ==
    [][\A t \in tasks \ tasks' :
          RejectedWithNamesLeft(t) => \E u \in tasks' : u.id = t.id /\ u.kind = t.kind]_vars

-----------------------------------------------------------------------------
(* C17 *)

-----------------------------------------------------------------------------
(* C15 *)

\* The update routines that end in this step and that the latest change of
\* the storage started.
EndingUpdates == {t \in tasks \ tasks' : t.kind = "update" /\ t.pc = "updates"
                                          /\ t.id = events}

\* C15: when the update routine started by a change of the stored color of
\* Dev from one offered color to another ends, the group Dev, which had the
\* old color when the routine read the groups, has the color the storage now
\* holds for Dev.
ColorChangePropagates ==
    [][\A t \in EndingUpdates : \A g \in (DOMAIN t.gsnap) \cap (DOMAIN groups') :
          (/\ t.gsnap[g].title = Dev
           /\ t.gsnap[g].color \in OfferedColors
           /\ Has(groupColors, Dev))
          => groups'[g].color = Get(groupColors, Dev)]_vars

-----------------------------------------------------------------------------
(* C16 *)

\* C16: every call of getGroupMappings and of getGroupColors returns what the
\* storage holds when the call is made, so also the first call after a
\* change of the stored mappings or colors.
FacadeReturnsCurrent == \A x \in reads : x.current

-----------------------------------------------------------------------------
(* C18 *)

\* C18: a run of checkAndUngroupTab calls chrome.tabs.ungroup exactly when
\* the tab was in a group, its URL has a domain, and the group's title and
\* the suffix-stripped domain, both in lower case, are unequal and neither
\* contains the other.
CorrectiveRule ==
    \A c \in checks :
        c.issued <=>
            (/\ c.grouped /\ c.fetched /\ c.domain # Null
             /\ LET title == ToLowerCase(c.title)
                    domain == ToLowerCase(StripSuffix(c.domain))
                IN /\ title # domain
                   /\ ~Includes(title, domain)
                   /\ ~Includes(domain, title))

-----------------------------------------------------------------------------
(* C19 *)

\* C19: a run of checkAndUngroupTab that a URL change caused begins when no
\* pass is in progress, and the group membership it decides on is the tab's
\* membership at that moment.
CheckAfterPasses ==
    \A c \in checks : ~c.during /\ c.captured = c.actual

-----------------------------------------------------------------------------
(* C21, C22, C23: getDomain *)

\* getDomain returned a domain for a URL with a hostname.
GaveDomain == lookup.returned /\ lookup.url.kind = "ok" /\ lookup.domain # Null

\* C21: the domain getDomain returns for a hostname, taken as a hostname
\* again, gives itself.
NormalizationIdempotent ==
    GaveDomain => getDomain(Url("ok", lookup.domain)) = lookup.domain

\* The hostname's labels without a first label "www" that a dot follows.
WithoutWww(labels) ==
    IF Len(labels) > 1 /\ labels[1] = <<"w","w","w">> THEN Tail(labels) ELSE labels

\* What the description gives for these labels: the last two joined by a dot
\* when there are more than one, else the whole hostname.
Registrable(labels) ==
    LET rest == WithoutWww(labels)
    IN IF Len(rest) > 1
       THEN rest[Len(rest) - 1] \o <<".">> \o rest[Len(rest)]
       ELSE rest[1]

\* C22 as stated: for a URL with a hostname getDomain returns the hostname
\* without one leading "www.", reduced to its last two labels.
DomainAsDescribed ==
    lookup.returned /\ lookup.url.kind = "ok" =>
        ~lookup.threw /\ lookup.domain = Registrable(lookup.labels)

\* C22: the same, and null when nothing is left of the hostname (the hostname
\* "www." with the dot of the root).
DomainAsDescribedOrNull ==
    lookup.returned /\ lookup.url.kind = "ok" =>
        /\ ~lookup.threw
        /\ lookup.domain = IF Registrable(lookup.labels) = <<>> THEN Null
                           ELSE Registrable(lookup.labels)

\* getDomain returned for a hostname with a leading "www." and three labels more.
WwwAndThreeLabels ==
    /\ GaveDomain
    /\ Len(lookup.labels) = 4
    /\ lookup.labels[1] = <<"w","w","w">>
    /\ lookup.labels[4] # <<>>
    /\ lookup.domain = lookup.labels[3] \o <<".">> \o lookup.labels[4]

SubExampleCoUk ==
    << <<"s","u","b">>, <<"e","x","a","m","p","l","e">>, <<"c","o">>, <<"u","k">> >>

\* C23 as stated: getDomain("http://sub.example.co.uk") is "example.co.uk".
CoUkKeepsThreeLabels ==
    lookup.returned /\ lookup.labels = SubExampleCoUk =>
        lookup.domain = <<"e","x","a","m","p","l","e",".","c","o",".","u","k">>

\* C23: getDomain("http://sub.example.co.uk") is "co.uk", the last two labels.
CoUkKeepsTwoLabels ==
    lookup.returned /\ lookup.labels = SubExampleCoUk =>
        lookup.domain = <<"c","o",".","u","k">>

\* getDomain("http://sub.example.co.uk") returned.
CoUkReturned == lookup.returned /\ lookup.labels = SubExampleCoUk

-----------------------------------------------------------------------------
(* C24 *)

\* getDomain finds no domain for this tab.
NoDomain(tb) == getDomain(tb.url) = Null

\* C24: getDomain does not throw and returns null for a missing and for a
\* malformed URL; a pass issues no group call naming a tab without a domain
\* and leaves such a tab in no group, and when the pass has ended the other
\* tabs that were eligible and share a group name are in one group.
NullDomainSkipped ==
    /\ \A url \in {NoUrl, Url("bad", <<>>)} :
          GetDomainSettles(url) = [threw |-> FALSE, domain |-> Null]
    /\ \A i \in DOMAIN win :
          NoDomain(win[i]) =>
             /\ win[i].gid = NoGroup
             /\ \A k \in DOMAIN made : win[i].id \notin made[k].ids
    /\ PassEnded =>
          \A i, j \in DOMAIN atPass.win :
              LET a == atPass.win[i]
                  b == atPass.win[j]
              IN (i # j /\ Eligible(a) /\ Eligible(b)
                    /\ TargetOf(a, groupMappings) = TargetOf(b, groupMappings))
                 => GroupNow(a.id) # NoGroup /\ GroupNow(a.id) = GroupNow(b.id)

\* A pass has ended that found a tab with a malformed URL first, then two
\* tabs of one site, and put these two into a group it created.
GroupedPastMalformed ==
    /\ PassEnded
    /\ Len(win) >= 3
    /\ win[1].url.kind = "bad" /\ win[1].gid = NoGroup
    /\ \E k \in DOMAIN made :
          made[k].new /\ made[k].ids = {win[2].id, win[3].id}

-----------------------------------------------------------------------------
(* C25 *)

\* The tabs of the window that show this domain.
TabsOf(domain) == {win[i].id : i \in {j \in DOMAIN win : getDomain(win[j].url) = domain}}

\* C25: when the first pass over the two github.com tabs and the gitlab.com
\* tab has ended, there is exactly one group, titled "Dev", holding exactly
\* the two github.com tabs, and the gitlab.com tab is ungrouped and last in
\* the strip.
EndToEndExample ==
    (passNo = 1 /\ PassEnded) =>
        /\ Cardinality(DOMAIN groups) = 1
        /\ \A g \in DOMAIN groups :
              groups[g].title = Dev /\ Members(win, g) = TabsOf(GithubCom)
        /\ win[Len(win)].gid = NoGroup
        /\ getDomain(win[Len(win)].url) = GitlabCom

-----------------------------------------------------------------------------
(* C26 *)

\* Tab id is the only tab of its group.
AloneInGroup(id) ==
    /\ GroupOf(win, id) # NoGroup
    /\ Members(win, GroupOf(win, id)) = {id}

CleanupRejected == lastDone.kind = "cleanup" /\ ~lastDone.ok

-----------------------------------------------------------------------------
(* C27 *)

\* In this step the invocation t of ungroupAllTabs returns.
UngroupAllReturns(t) == t \in At("ungroupAll", "ungroups") /\ t \notin tasks'

\* No tab of the window is in a group.
NoTabGrouped == \A i \in DOMAIN win : win[i].gid = NoGroup

-----------------------------------------------------------------------------
(* C28, C29 *)

\* In this step the routine t that moves the ungrouped tabs returns, none of
\* its chrome.tabs.move calls having been rejected.
MoverReturnsUnrejected(t) ==
    /\ t \in tasks /\ t.kind = "mover"
    /\ \A u \in tasks' : u.id # t.id
    /\ t.ok /\ t.kept = <<>>

\* In strip w every ungrouped tab whose pinned flag is among pins comes after
\* every grouped tab.
UngroupedAfterGrouped(w, pins) ==
    \A i, j \in DOMAIN w :
        (w[i].gid = NoGroup /\ w[i].pinned \in pins /\ w[j].gid # NoGroup) => j < i

SinglesAtStart ==
    [][\A t \in tasks :
          MoverReturnsUnrejected(t) =>
             \A i, j \in DOMAIN win' :
                (win'[i].gid = NoGroup /\ win'[j].gid # NoGroup) => i < j]_vars

-----------------------------------------------------------------------------
(* C30 *)

\* The write w has been answered and the store reported an error.
Failed(w) == w.pc = "done" /\ w.error

\* C30: a storage write for which the store reported an error does not report
\* success: the promise of StorageManager.set is rejected, and no write of the
\* mappings or the colors ends as it ends when the store has written them.
StorageFailuresSurfaced ==
    \A i \in DOMAIN saves : Failed(saves[i]) => saves[i].outcome = "rejected"

\* C30, the part about StorageManager.set alone.
SetRejectsOnError ==
    \A i \in DOMAIN saves :
        saves[i].by = "StorageManager" /\ Failed(saves[i]) => saves[i].outcome = "rejected"

\* StorageManager.set was answered with an error.
SetFailed == \E i \in DOMAIN saves : saves[i].by = "StorageManager" /\ Failed(saves[i])

-----------------------------------------------------------------------------
(* C31 *)

\* The positions of name where a run of characters a-z, A-Z, 0-9 begins.
WordStarts(name) ==
    {i \in DOMAIN name : IsAlnum(name[i]) /\ (i = 1 \/ ~IsAlnum(name[i - 1]))}

\* The smallest element of the non-empty set of integers S.
Least(S) == CHOOSE i \in S : \A j \in S : i <= j

\* The title as described: the name when it has at most 15 characters, else
\* the upper-cased first characters of its first two words when it has two,
\* else its upper-cased first 5 characters.
DescribedTitle(name) ==
    LET starts == WordStarts(name) IN
    IF Len(name) <= 15 THEN name
    ELSE IF Cardinality(starts) >= 2
         THEN <<UpperChar(name[Least(starts)]),
                UpperChar(name[Least(starts \ {Least(starts)})])>>
         ELSE [i \in 1..5 |-> UpperChar(name[i])]

\* C31: the title used for a group name is the name when it has at most 15
\* characters; else the upper-cased first characters of its first two
\* alphanumeric words when it has two, else its upper-cased first 5 characters.
TitleFormatting ==
    asked.fn = "title" /\ asked.returned => asked.result = DescribedTitle(asked.name)

\* "My Favorite Site" was given the title "MF".
MyFavoriteSiteTitled ==
    /\ asked.fn = "title" /\ asked.returned
    /\ asked.name = <<"M","y"," ","F","a","v","o","r","i","t","e"," ","S","i","t","e">>
    /\ asked.result = <<"M","F">>

-----------------------------------------------------------------------------
(* C32 *)

\* The domain d without the one suffix it ends in, d when it ends in none.
WithoutSuffix(d) ==
    IF \E suf \in Range(Suffixes) : EndsWith(d, suf)
    THEN CHOOSE r \in {SubSeq(d, 1, n) : n \in 0..Len(d)} :
            \E suf \in Range(Suffixes) : d = r \o suf
    ELSE d

\* C32: the group name of a tab with domain d is mappings[d] when the
\* mappings contain d, and otherwise d with one trailing suffix among .com,
\* .se, .net, .org, .io, .dev removed.
GroupNameResolution ==
    asked.fn = "groupName" /\ asked.returned =>
        asked.result = IF Has(asked.maps, asked.name) THEN Get(asked.maps, asked.name)
                       ELSE WithoutSuffix(asked.name)

\* The same for the domains that name no inherited property and the
\* mappings whose names are not empty.
GroupNameResolutionOfNamed ==
    /\ asked.fn = "groupName" /\ asked.returned
    /\ asked.name \notin InheritedKeys
    /\ \A i \in DOMAIN asked.maps : asked.maps[i].val # <<>>
    => asked.result = IF Has(asked.maps, asked.name) THEN Get(asked.maps, asked.name)
                      ELSE WithoutSuffix(asked.name)

-----------------------------------------------------------------------------
(* C33 *)

\* The colors memoized for name in store and not expired.
Memoized(store, name) == {en.value : en \in {x \in store : x.key = name /\ ~x.expired}}

\* C33: generateColor(name) returns the override of groupColors for exactly
\* that name whenever there is one, also when a color is memoized for the
\* name; without an override it returns the memoized color; without a
\* memoized color it returns COLOR_PALETTE[|hash(name)| mod 9] and has
\* memoized it.
ColorPrecedence ==
    asked.fn = "color" /\ asked.returned =>
        IF Has(asked.colors, asked.name)
        THEN asked.result = <<Get(asked.colors, asked.name)>>
        ELSE IF Memoized(asked.store, asked.name) # {}
             THEN asked.result[1] \in Memoized(asked.store, asked.name)
             ELSE /\ asked.result = <<HashColor(asked.name)>>
                  /\ Memoized(colorCache, asked.name) = {HashColor(asked.name)}

\* The same for the names that name no inherited property and the overrides
\* that are not the empty string.
ColorPrecedenceOfNamed ==
    /\ asked.fn = "color" /\ asked.returned
    /\ asked.name \notin InheritedKeys
    /\ \A i \in DOMAIN asked.colors : asked.colors[i].val # ""
    => IF Has(asked.colors, asked.name)
       THEN asked.result = <<Get(asked.colors, asked.name)>>
       ELSE IF Memoized(asked.store, asked.name) # {}
            THEN asked.result[1] \in Memoized(asked.store, asked.name)
            ELSE /\ asked.result = <<HashColor(asked.name)>>
                 /\ Memoized(colorCache, asked.name) = {HashColor(asked.name)}

-----------------------------------------------------------------------------
(* C34 *)

\* C34: no step of a routine of the engine closes or creates a tab: the tabs
\* of the window are the same after every step that is not an event from
\* outside (the user closing a tab), however the handlers interleave.
NoTabLost ==
    [][events' = events =>
          /\ TabIdsOf(win') = TabIdsOf(win)
          /\ Len(win') = Len(win)]_vars

\* A pass has made a group, the user has closed a tab, and the cleanup and an
\* ungroupAllTabs have run to their ends: the other tabs are all there.
RoutinesRanTabsKept ==
    /\ made # <<>>
    /\ lastDone.kind = "ungroupAll"
    /\ DOMAIN settled # {}
    /\ Len(win) = MaxTabs - 1
    /\ Cardinality(TabIdsOf(win)) = MaxTabs - 1

-----------------------------------------------------------------------------
(* C35 *)

\* The operation of the id-th enqueue call has started.
HasStarted(id) == \E k \in DOMAIN started : started[k] = id

\* C35: every operation passed to enqueue is started at some time, when the
\* operations before it settle; and the queue is never left with operations
\* waiting while processing is false, whenever enqueue was called.
QueueLiveness ==
    /\ [](~processing => queue = <<>>)
    /\ \A id \in 1..MaxOps : (nextId > id) ~> HasStarted(id)

\* Every operation has been started and has settled, the later ones having
\* waited in the queue; the loop has ended.
QueueDrained ==
    /\ Len(started) = MaxOps
    /\ Cardinality(DOMAIN settled) = MaxOps
    /\ ~processing /\ queue = <<>>

-----------------------------------------------------------------------------
(* C36 *)

\* C36: when the promise of enqueue(op) settles, op has finished: the batched
\* groupTabsByDomain, which awaits enqueue for each batch, goes on (to its
\* next batch or to its end) only when the batch it enqueued has executed,
\* also when it called enqueue while another operation was running.
EnqueueAwaitsOperation ==
    [][\A t \in At("passBatched", "enqueued") :
          t \notin tasks' => t.cur \in DOMAIN settled]_vars

\* The same for the enqueue calls made while no operation was running.
IdleEnqueueAwaitsOperation ==
    [][\A t \in At("passBatched", "enqueued") :
          (t \notin tasks' /\ t.n = 1) => t.cur \in DOMAIN settled]_vars

-----------------------------------------------------------------------------
(* C37 *)

\* C37: the functions wrapped by any two calls of rateLimiter.execute start
\* at least minInterval apart, also when the calls are made by different
\* handlers while one of them waits.
StartsApart ==
    \A i, j \in DOMAIN limiter.starts :
        i < j => limiter.starts[j].at - limiter.starts[i].at >= minInterval

\* The same as long as no call is made while another one waits.
StartsApartWhenNotOverlapped == ~limiter.overlapped => StartsApart

-----------------------------------------------------------------------------
(* C38 *)

\* The run of checkAndUngroupTab was for a tab in the group the script makes
\* for the tab's domain: the group's title is the title of the domain's name.
InOwnGroup(c) ==
    /\ c.grouped /\ c.fetched /\ c.domain # Null
    /\ c.captured = c.actual
    /\ c.title = TitleOf(GroupNameOf(c.domain, groupMappings))

\* C38: checkAndUngroupTab does not call chrome.tabs.ungroup for a tab that
\* is in the group of the domain it is on, whether the group is named by the
\* domain, by a mapping, or by an abbreviated title.
SameDomainKept == \A c \in checks : InOwnGroup(c) => ~c.issued

\* The same for the groups whose title holds the stripped domain or is held by it.
SameDomainKeptWhenTitleMatches ==
    \A c \in checks :
        InOwnGroup(c) /\ ~DomainsDiffer(c.title, c.domain) => ~c.issued

\* The same for the groups no mapping names.
SameDomainKeptWhenUnmapped ==
    \A c \in checks :
        InOwnGroup(c) /\ GetProp(groupMappings, c.domain) = Undefined => ~c.issued

-----------------------------------------------------------------------------
(* C39 *)

\* C39: no step of a pass takes a tab that is in a group into another group;
\* a tab that was ungrouped when the pass read the tabs and has been put into
\* a group since is left in that group by the chrome.tabs.group call of the pass.
GroupedTabsStay ==
    [][\A i \in DOMAIN win, j \in DOMAIN win' :
          (win[i].id = win'[j].id /\ win[i].gid # NoGroup /\ win'[j].gid # NoGroup)
              => win'[j].gid = win[i].gid]_vars

\* The same of the calls: none names a tab that is in a group when it is issued.
NoStaleGroupCall == \A i \in DOMAIN made : ~made[i].stale

-----------------------------------------------------------------------------
(* C40 *)

\* The two halves are those of a 32-bit integer.
IsInt32(h) == h.hi \in 0..(Half - 1) /\ h.lo \in 0..(Half - 1)

\* The signed value of the 32-bit integer h, and the least such value.
Signed(h) == IF IsNegative(h) THEN (h.hi - Half) * Half + h.lo ELSE h.hi * Half + h.lo
MinInt32 == (0 - Half \div 2) * Half

\* |Signed(h)| mod n, computed on the value; 2^31 = (2^15 mod n)(2^16 mod n) mod n
AbsMod(h, n) ==
    IF Signed(h) = MinInt32 THEN (((Half \div 2) % n) * (Half % n)) % n
    ELSE IF Signed(h) < 0 THEN (0 - Signed(h)) % n
    ELSE Signed(h) % n

\* hashCode keeps hash a 32-bit integer after each character.
HashStaysInt32 ==
    (asked.fn = "hash" /\ asked.returned) =>
        /\ Len(asked.trace) = Len(asked.name) + 1
        /\ \A i \in DOMAIN asked.trace : IsInt32(asked.trace[i])

\* Math.abs(hash) % COLOR_PALETTE.length is |hash| mod 9, in 0..8.
PaletteIndexInRange ==
    (asked.fn = "hash" /\ asked.returned) =>
        LET h == asked.result[1] IN
        /\ PaletteIndex(h) = AbsMod(h, Len(COLOR_PALETTE))
        /\ PaletteIndex(h) \in 0..(Len(COLOR_PALETTE) - 1)

\* generateColor returns a color of the palette for a name with no stored color.
PaletteColorReturned ==
    (asked.fn = "color" /\ asked.returned /\ ~Has(asked.colors, asked.name)) =>
        asked.result[1] \in Range(COLOR_PALETTE)

\* C40: for every group name hashCode stays a signed 32-bit integer after
\* each character, the palette index |hash| mod 9 is in 0..8, also when the
\* hash is -2^31, and so generateColor returns one of the 9 palette colors
\* when no color is stored for the name.
HashedColorInPalette == HashStaysInt32 /\ PaletteIndexInRange /\ PaletteColorReturned

\* hashCode returned -2^31 and the index is in range.
MinHashIndexed ==
    /\ asked.fn = "hash" /\ asked.returned
    /\ Signed(asked.result[1]) = MinInt32
    /\ PaletteIndex(asked.result[1]) = 2

\* The last part for the names that are not properties every object inherits.
PaletteColorReturnedForOwnKeys ==
    asked.name \notin InheritedKeys => PaletteColorReturned

====
